---- MODULE Spec2Model ----
(***************************************************************************)
(* Model of the API-orchestration core of Deep_research_structured_report: *)
(* the rate limiter, the retry controller and the API call manager of      *)
(* src/utils/rate_limiter.py, the search cache of                          *)
(* src/utils/search_cache.py, the token budget of                          *)
(* src/utils/token_manager.py and the JSON parser of                       *)
(* src/utils/json_parser.py.  Time is a discrete clock (`now`, the value   *)
(* of time.time()); coroutines are tasks whose steps are the stretches of  *)
(* code between two suspension points (asyncio runs each atomically).      *)
(***************************************************************************)
EXTENDS Integers, Sequences, FiniteSets, TLC

\* ---------------------------------------------------------------- bounds
NumTasks == 2        \* concurrently running coroutines
MaxCalls == 3        \* wait_for_<a> calls made in one run, over all coroutines
MaxRetryCalls == 2   \* retry_with_exponential_backoff calls made in one run
MaxApiCalls == 2     \* call_<a>_api calls made in one run
Horizon == 2         \* clock ticks in one run
MaxDelay == 2        \* largest configured rate-limit spacing
MaxRetriesCfg == 2   \* largest configured max_retries
MaxBaseDelay == 2    \* largest configured base_delay
MaxMaxDelay == 3     \* largest configured max_delay
MaxStores == 2       \* cache_results calls made in one run
MaxLookups == 2      \* get_cached_results and clean-up calls made in one run
MaxCacheTicks == 2   \* hours that pass in one run of the cache
MaxTTLHours == 1     \* largest configured ttl_hours
MaxCacheSize == 2    \* largest configured max_cache_size
MaxQueries == 2      \* longest list of queries given to _search_web
MaxMixed == 3        \* longest list of sources of unlike shapes
MaxSources == 60     \* length of the long lists of like sources
MaxSlack == 2        \* prompts estimated up to this far from the budget
ScenarioSources == 5 \* length of the lists of the thin-budget scenario
ScenarioBudget == 140 \* its sources budget in tokens, about 100 chars each
MaxProse == 1        \* most words of prose before and after a JSON text
DecileSize == 19     \* entries of a cache one store short of two deciles
MaxFactoryCalls == 3 \* get_rate_limiter and reset_rate_limiter calls in one run

StartTime == MaxDelay + MaxMaxDelay  \* time.time() at construction: far past 0.0
MaxTime == StartTime + Horizon
Tasks == 1..NumTasks
Apis == {"anthropic", "tavily"}
Kinds == {"async", "sync", "wrapped"}
PlanLen == MaxRetriesCfg + 2
\* The outcomes an operation can show to one call: it fails k times and then
\* succeeds (a call ends at the first success), or it fails every time.
Plans == {[i \in 1..PlanLen |-> IF i <= k THEN "fail" ELSE "ok"] : k \in 0..PlanLen}
NoSleep == -1        \* the call did not reach asyncio.sleep
NoResult == [type |-> "none", id |-> 0]

VARIABLES
    now,                   \* time.time()
    anthropic_delay,       \* RateLimiter.anthropic_delay
    tavily_delay,          \* RateLimiter.tavily_delay
    last_anthropic_call,   \* RateLimiter.last_anthropic_call
    last_tavily_call,      \* RateLimiter.last_tavily_call
    max_retries,           \* RetryConfig.max_retries
    base_delay,            \* RetryConfig.base_delay
    max_delay,             \* RetryConfig.max_delay
    rate_limiting_enabled, \* APICallManager.rate_limiting_enabled
    retry_enabled,         \* APICallManager.retry_enabled
    plan,                  \* the wrapped operation: outcome of its i-th run
    task,                  \* the coroutines: position, locals and history
    last_release,          \* history: when wait_for_<a> last returned, per api
    started,               \* calls made so far
    ttl_hours,             \* SearchCache.ttl_hours
    max_cache_size,        \* SearchCache.max_cache_size
    similarity_threshold,  \* SearchCache.similarity_threshold, a fraction
    enable_file_cache,     \* SearchCache.enable_file_cache
    memory_cache,          \* SearchCache.memory_cache, in insertion order
    disk,                  \* the <cache_key>.pkl files of cache_dir
    stats,                 \* SearchCache.stats
    queried,               \* cache lookups and clean-ups made so far
    memo,                  \* the cache keys and similarities, worked out once
    last_op,               \* history: the last operation and its result
    flow,                  \* the _search_web calls: position, locals and history
    tok,                   \* a TokenManager, the arguments and the result of a call
    js,                    \* a call on the JSON parser: its text and its outcome
    global_rate_limiter    \* rate_limiter._global_rate_limiter

rlVars == <<anthropic_delay, tavily_delay, last_anthropic_call, last_tavily_call>>
cfgVars == <<max_retries, base_delay, max_delay, rate_limiting_enabled,
             retry_enabled, plan, flow, tok, js, global_rate_limiter>>
cacheCfg == <<ttl_hours, max_cache_size, similarity_threshold, enable_file_cache,
              memo>>
cacheVars == <<cacheCfg, memory_cache, disk, stats, queried, last_op>>
vars == <<now, rlVars, cfgVars, task, last_release, started, cacheVars>>

Min(a, b) == IF a < b THEN a ELSE b

\* A coroutine that has not been started.
IdleTask ==
    [pc |-> "idle", entry |-> "none", api |-> "none", kind |-> "none",
     current_time |-> 0, seenLast |-> 0, wait_time |-> NoSleep, wake |-> 0,
     overlap |-> FALSE, attempt |-> 0, calls |-> 0, bodyRuns |-> 0,
     sleeps |-> <<>>, last_exception |-> NoResult, result |-> NoResult]

\* No TokenManager is constructed.
NoTok == [called |-> FALSE]

\* No call is made on the JSON parser.
NoJs == [called |-> FALSE]

\* A coroutine that is not in _search_web.
IdleFlow ==
    [phase |-> "idle", queries |-> <<>>, topic |-> <<>>, i |-> 0,
     cache_hits |-> 0, cache_misses |-> 0, stores |-> 0, failed |-> 0]

\* ---------------------------------------------------------- rate limiter
\* RateLimiter.__init__
RateLimiterInit ==
    /\ anthropic_delay \in 0..MaxDelay
    /\ tavily_delay \in 0..MaxDelay
    /\ last_anthropic_call = 0
    /\ last_tavily_call = 0

Delay(a) == IF a = "anthropic" THEN anthropic_delay ELSE tavily_delay
LastCall(a) == IF a = "anthropic" THEN last_anthropic_call ELSE last_tavily_call

\* The coroutines suspended in asyncio.sleep inside wait_for_<a>.
Sleeping(a) == {u \in Tasks : task[u].pc = "sleep" /\ task[u].api = a}

\* time_since_last < delay, the test that decides whether a call sleeps
NeedsWaitLe(time_since_last, delay) == time_since_last <= delay
NeedsWait(time_since_last, delay) == time_since_last < delay

\* The timestamp a wait_for_<a> call compares the clock with.
LastReadShared(a) == last_anthropic_call
LastRead(a) == LastCall(a)

\* The value a returning wait_for_<a> call stores as the last call time.
StampEntry(r) == r.current_time
Stamp(r) == now

\* ------------------------------------------------------ retry controller
\* RetryConfig.__init__
RetryConfigInit ==
    /\ max_retries \in 0..MaxRetriesCfg
    /\ base_delay \in 1..MaxBaseDelay
    /\ max_delay \in 1..MaxMaxDelay

\* The i-th run of the operation's body: a value or an exception, each
\* tagged with the run that produced it.
Body(i) ==
    IF plan[i] = "ok" THEN [type |-> "value", id |-> i]
                      ELSE [type |-> "exc", id |-> i]

\* asyncio.iscoroutinefunction(func): true of an `async def` only, false of
\* a plain function or lambda, also of one that returns a coroutine.
IsCoroutineFunctionNever(kind) == FALSE
IsCoroutineFunction(kind) == kind = "async"

\* await func(...) if asyncio.iscoroutinefunction(func) else func(...):
\* what the expression evaluates to (or raises), and whether the body ran.
Invoke(r) ==
    IF IsCoroutineFunction(r.kind)
    THEN \* await func(...): the body runs to its value or its exception
         [out |-> Body(r.bodyRuns + 1), ran |-> 1]
    ELSE IF r.kind = "sync"
    THEN \* func(...) of a plain function: the body runs
         [out |-> Body(r.bodyRuns + 1), ran |-> 1]
    ELSE \* func(...) of a callable that returns a coroutine: the coroutine
         \* object is the value, its body has not run
         [out |-> [type |-> "coroutine", id |-> 0], ran |-> 0]

\* attempt == retry_config.max_retries
ExhaustedEarly(attempt) == attempt + 1 >= max_retries
Exhausted(attempt) == attempt = max_retries

\* min(base_delay * 2**attempt, max_delay)
BackoffDelayUncapped(attempt) == base_delay * (2 ^ attempt)
BackoffDelay(attempt) == Min(base_delay * (2 ^ attempt), max_delay)

\* raise e
RaiseFirst(e) == [type |-> "exc", id |-> 1]
Raise(e) == e

\* One iteration of `for attempt in range(max_retries + 1)`, from the
\* invocation to the return, the raise or asyncio.sleep(delay).
Attempt(r) ==
    IF r.attempt > max_retries
    THEN [r EXCEPT !.pc = "raised", !.result = r.last_exception]
    ELSE LET inv == Invoke(r)
             r1 == [r EXCEPT !.calls = @ + 1, !.bodyRuns = @ + inv.ran]
         IN IF inv.out.type # "exc"
            THEN [r1 EXCEPT !.pc = "returned", !.result = inv.out]
            ELSE IF Exhausted(r.attempt)
            THEN [r1 EXCEPT !.pc = "raised", !.last_exception = inv.out,
                            !.result = Raise(inv.out)]
            ELSE [r1 EXCEPT !.pc = "backoff", !.last_exception = inv.out,
                            !.sleeps = Append(@, BackoffDelay(r.attempt)),
                            !.wake = now + BackoffDelay(r.attempt)]

\* The call without the retry controller (enable_retries off).
CallOnce(r) ==
    LET inv == Invoke(r)
        r1 == [r EXCEPT !.calls = @ + 1, !.bodyRuns = @ + inv.ran]
    IN IF inv.out.type # "exc"
       THEN [r1 EXCEPT !.pc = "returned", !.result = inv.out]
       ELSE [r1 EXCEPT !.pc = "raised", !.result = inv.out]

\* call_<a>_api after the rate limiter: the retry controller or the call.
CallFunc(r) == IF retry_enabled THEN Attempt(r) ELSE CallOnce(r)

\* Where a coroutine goes when wait_for_<a> returns.
AfterWait(r) ==
    IF r.entry = "manager" THEN CallFunc(r) ELSE [r EXCEPT !.pc = "released"]

\* wait_for_<a>, from its first line to asyncio.sleep or to its return.
WaitForEnter(t, a, r) ==
    LET current_time == now
        time_since_last == current_time - LastRead(a)
        inflight == Sleeping(a)
        r1 == [r EXCEPT !.api = a, !.current_time = current_time,
                        !.seenLast = LastRead(a),
                        !.overlap = (inflight # {})]
        others(new) == [u \in Tasks |->
                          IF u = t THEN new
                          ELSE IF u \in inflight
                          THEN [task[u] EXCEPT !.overlap = TRUE]
                          ELSE task[u]]
    IN IF NeedsWait(time_since_last, Delay(a))
       THEN /\ task' = others([r1 EXCEPT !.pc = "sleep",
                                  !.wait_time = Delay(a) - time_since_last,
                                  !.wake = now + (Delay(a) - time_since_last)])
            /\ UNCHANGED <<last_anthropic_call, last_tavily_call, last_release>>
       ELSE /\ task' = others(AfterWait(r1))
            /\ last_release' = [last_release EXCEPT ![a] = now]
            /\ IF a = "anthropic"
               THEN /\ last_anthropic_call' = Stamp(r1)
                    /\ UNCHANGED last_tavily_call
               ELSE /\ last_tavily_call' = Stamp(r1)
                    /\ UNCHANGED last_anthropic_call

\* wait_for_<a>, from the end of asyncio.sleep to its return.
WaitForWake(t) ==
    /\ task[t].pc = "sleep"
    /\ now >= task[t].wake
    /\ task' = [task EXCEPT ![t] = AfterWait(task[t])]
    /\ last_release' = [last_release EXCEPT ![task[t].api] = now]
    /\ IF task[t].api = "anthropic"
       THEN /\ last_anthropic_call' = Stamp(task[t])
            /\ UNCHANGED last_tavily_call
       ELSE /\ last_tavily_call' = Stamp(task[t])
            /\ UNCHANGED last_anthropic_call
    /\ UNCHANGED <<now, anthropic_delay, tavily_delay, cfgVars, started, cacheVars>>

\* A coroutine awaits wait_for_<a>: the call runs at once up to its first
\* suspension.
CallWaitFor(t, a) ==
    /\ task[t].pc = "idle"
    /\ started < MaxCalls
    /\ started' = started + 1
    /\ WaitForEnter(t, a, [IdleTask EXCEPT !.entry = "direct"])
    /\ UNCHANGED <<now, anthropic_delay, tavily_delay, cfgVars, cacheVars>>

wait_for_anthropic(t) == CallWaitFor(t, "anthropic")
wait_for_tavily(t) == CallWaitFor(t, "tavily")

\* A coroutine awaits retry_with_exponential_backoff(func, retry_config).
retry_with_exponential_backoff(t, k) ==
    /\ task[t].pc = "idle"
    /\ started < MaxRetryCalls
    /\ started' = started + 1
    /\ task' = [task EXCEPT
                  ![t] = Attempt([IdleTask EXCEPT !.entry = "retry", !.kind = k])]
    /\ UNCHANGED <<now, rlVars, cfgVars, last_release, cacheVars>>

\* The value `for attempt in range(...)` gives the next iteration.
NextAttemptSame(attempt) == attempt
NextAttempt(attempt) == attempt + 1

\* asyncio.sleep(delay) is over: the next iteration of the retry loop.
BackoffWake(t) ==
    /\ task[t].pc = "backoff"
    /\ now >= task[t].wake
    /\ task' = [task EXCEPT
                  ![t] = Attempt([task[t] EXCEPT !.attempt = NextAttempt(@)])]
    /\ UNCHANGED <<now, rlVars, cfgVars, last_release, started, cacheVars>>

\* APICallManager.call_<a>_api(api_func), from its first line to its first
\* suspension or to its end.
CallApiEnter(t, a, k) ==
    LET r == [IdleTask EXCEPT !.entry = "manager", !.kind = k, !.api = a]
    IN IF rate_limiting_enabled
       THEN WaitForEnter(t, a, r)
       ELSE /\ task' = [task EXCEPT ![t] = CallFunc(r)]
            /\ UNCHANGED <<last_anthropic_call, last_tavily_call, last_release>>

\* A coroutine awaits call_<a>_api(api_func).
CallApi(t, a, k) ==
    /\ task[t].pc = "idle"
    /\ started < MaxApiCalls
    /\ started' = started + 1
    /\ CallApiEnter(t, a, k)
    /\ UNCHANGED <<now, anthropic_delay, tavily_delay, cfgVars, cacheVars>>

call_anthropic_api(t, k) == CallApi(t, "anthropic", k)
call_tavily_api(t, k) == CallApi(t, "tavily", k)

\* The awaiting coroutine takes the return value or the exception.
Released(t) ==
    /\ task[t].pc \in {"released", "returned", "raised"}
    /\ task' = [task EXCEPT ![t] = IdleTask]
    /\ UNCHANGED <<now, rlVars, cfgVars, last_release, started, cacheVars>>

\* The clock advances.
Tick ==
    /\ now < MaxTime
    /\ now' = now + 1
    /\ UNCHANGED <<rlVars, cfgVars, task, last_release, started, cacheVars>>

\* ----------------------------------------------------------- search cache
\* Strings are sequences of characters.
Queries == {<<"a", " ", "b">>, <<"A", " ", " ", "b">>, <<"a">>, <<"a", ":", "b">>}
Topics == {<<>>, <<"b", ":">>}
ResultLists == {<<>>, <<1>>, <<2>>}
SectionTypes == {"intro"}
SecondsPerHour == 3600
TickSeconds == SecondsPerHour

\* CacheStats()
CacheStats ==
    [total_queries |-> 0, cache_hits |-> 0, cache_misses |-> 0,
     total_saved_queries |-> 0, cache_size |-> 0]

\* The cache is not constructed.
NoCache ==
    /\ ttl_hours = 0 /\ max_cache_size = 0
    /\ similarity_threshold = <<0, 1>>
    /\ enable_file_cache = FALSE
    /\ memo = <<>>
    /\ memory_cache = <<>>
    /\ disk = {}
    /\ stats = CacheStats
    /\ queried = 0
    /\ last_op = [op |-> "none"]

\* str.lower() and str.strip()
Lower(c) == IF c = "A" THEN "a" ELSE IF c = "B" THEN "b" ELSE c
LowerStr(str) == [i \in 1..Len(str) |-> Lower(str[i])]
RECURSIVE Strip(_)
Strip(str) ==
    IF str = <<>> THEN str
    ELSE IF Head(str) = " " THEN Strip(Tail(str))
    ELSE IF str[Len(str)] = " " THEN Strip(SubSeq(str, 1, Len(str) - 1))
    ELSE str
Normalize(str) == Strip(LowerStr(str))

\* SearchCache._generate_cache_key; the md5 digest is taken to be one-to-one
\* on the strings hashed.
CacheKeyOf(query, topic) == Normalize(query) \o <<":">> \o Normalize(topic)
GenerateCacheKey(query, topic) == memo.key[<<query, topic>>]

\* CacheEntry.is_expired
IsExpiredAtTTL(entry) == now - entry.timestamp >= ttl_hours * SecondsPerHour
IsExpired(entry) == now - entry.timestamp > ttl_hours * SecondsPerHour

\* Fractions <<numerator, denominator>> with a positive denominator.
RatLess(x, y) == x[1] * y[2] < y[1] * x[2]
RatLeq(x, y) == x[1] * y[2] <= y[1] * x[2]
RatAdd(x, y) == <<x[1] * y[2] + y[1] * x[2], x[2] * y[2]>>
RatMul(x, y) == <<x[1] * y[1], x[2] * y[2]>>

\* difflib.SequenceMatcher.find_longest_match on a[alo..ahi], b[blo..bhi]:
\* the longest common block, the earliest in a, then the earliest in b.
MatchingBlocks(a, alo, ahi, b, blo, bhi) ==
    {c \in (alo..ahi) \X (blo..bhi) \X (1..Len(a)) :
        /\ c[1] + c[3] - 1 <= ahi
        /\ c[2] + c[3] - 1 <= bhi
        /\ \A x \in 0..(c[3] - 1) : a[c[1] + x] = b[c[2] + x]}
FindLongestMatch(a, alo, ahi, b, blo, bhi) ==
    LET cands == MatchingBlocks(a, alo, ahi, b, blo, bhi)
    IN CHOOSE c \in cands : \A d \in cands :
          \/ c[3] > d[3]
          \/ c[3] = d[3] /\ c[1] < d[1]
          \/ c[3] = d[3] /\ c[1] = d[1] /\ c[2] <= d[2]

\* The characters matched by difflib.SequenceMatcher.get_matching_blocks.
RECURSIVE MatchCount(_, _, _, _, _, _)
MatchCount(a, alo, ahi, b, blo, bhi) ==
    IF MatchingBlocks(a, alo, ahi, b, blo, bhi) = {} THEN 0
    ELSE LET m == FindLongestMatch(a, alo, ahi, b, blo, bhi)
         IN m[3] + MatchCount(a, alo, m[1] - 1, b, blo, m[2] - 1)
                 + MatchCount(a, m[1] + m[3], ahi, b, m[2] + m[3], bhi)

\* str.split(): the maximal runs of characters that are not blanks.
Words(str) ==
    {SubSeq(str, i, j) : <<i, j>> \in
        {w \in (1..Len(str)) \X (1..Len(str)) :
            /\ w[1] <= w[2]
            /\ \A x \in w[1]..w[2] : str[x] # " "
            /\ w[1] = 1 \/ str[w[1] - 1] = " "
            /\ w[2] = Len(str) \/ str[w[2] + 1] = " "}}

\* SearchCache._calculate_query_similarity, as an exact fraction.
CalculateQuerySimilarity(query1, query2) ==
    LET q1 == Normalize(query1)
        q2 == Normalize(query2)
        matched == MatchCount(q1, 1, Len(q1), q2, 1, Len(q2))
        total == Len(q1) + Len(q2)
        seq_similarity == <<2 * matched, total>>
        words1 == Words(q1)
        words2 == Words(q2)
        keyword_similarity ==
            IF words1 # {} \/ words2 # {}
            THEN <<Cardinality(words1 \cap words2), Cardinality(words1 \cup words2)>>
            ELSE <<0, 1>>
    IN IF q1 = q2 THEN <<1, 1>>
       ELSE RatAdd(RatMul(seq_similarity, <<6, 10>>),
                   RatMul(keyword_similarity, <<4, 10>>))

\* _generate_cache_key and _calculate_query_similarity of all the strings
\* the model passes to them, worked out once at construction.
Memo ==
    [key |-> [p \in Queries \X Topics |-> CacheKeyOf(p[1], p[2])],
     sim |-> [p \in (Queries \X Queries) \cup (Topics \X Topics) |->
                CalculateQuerySimilarity(p[1], p[2])]]
QuerySimilarity == memo.sim

\* The score of one entry in SearchCache._find_similar_cached_query.
EntrySimilarity(query, topic, entry) ==
    LET similarity == QuerySimilarity[<<query, entry.query>>]
        topic_similarity == QuerySimilarity[<<topic, entry.topic>>]
    IN IF topic # <<>> /\ entry.topic # <<>> /\ RatLess(<<3, 10>>, topic_similarity)
       THEN RatAdd(similarity, RatMul(topic_similarity, <<2, 10>>))
       ELSE similarity

\* similarity > best_similarity and similarity >= self.similarity_threshold
BetterMatchLast(similarity, best_similarity) ==
    /\ RatLeq(best_similarity, similarity)
    /\ RatLeq(similarity_threshold, similarity)
BetterMatch(similarity, best_similarity) ==
    /\ RatLess(best_similarity, similarity)
    /\ RatLeq(similarity_threshold, similarity)

\* SearchCache._find_similar_cached_query over cache (a sequence of
\* entries): the index of best_match, 0 for None.
RECURSIVE FindSimilarFrom(_, _, _, _, _, _)
FindSimilarFrom(cache, i, best_match, best_similarity, query, topic) ==
    IF i > Len(cache) THEN best_match
    ELSE IF IsExpired(cache[i])
    THEN FindSimilarFrom(cache, i + 1, best_match, best_similarity, query, topic)
    ELSE LET similarity == EntrySimilarity(query, topic, cache[i])
         IN IF BetterMatch(similarity, best_similarity)
            THEN FindSimilarFrom(cache, i + 1, i, similarity, query, topic)
            ELSE FindSimilarFrom(cache, i + 1, best_match, best_similarity, query, topic)
FindSimilarCachedQuery(cache, query, topic) ==
    FindSimilarFrom(cache, 1, 0, <<0, 1>>, query, topic)

\* The dict operations on memory_cache.
KeyIndex(cache, key) ==
    IF \E i \in 1..Len(cache) : cache[i].key = key
    THEN CHOOSE i \in 1..Len(cache) : cache[i].key = key
    ELSE 0
DictDeleteNot(cache, idx) == cache
DictDelete(cache, idx) ==
    [i \in 1..(Len(cache) - 1) |-> IF i < idx THEN cache[i] ELSE cache[i + 1]]
DictAssign(cache, entry) ==
    IF KeyIndex(cache, entry.key) # 0
    THEN [cache EXCEPT ![KeyIndex(cache, entry.key)] = entry]
    ELSE Append(cache, entry)

\* The place of cache[i] in sorted(items, key=(hit_count, timestamp)), a
\* stable sort, counted from 0.
SortRankByHits(cache, i) ==
    Cardinality({j \in 1..Len(cache) :
        \/ cache[j].hit_count < cache[i].hit_count
        \/ cache[j].hit_count = cache[i].hit_count /\ j < i})
SortRank(cache, i) ==
    Cardinality({j \in 1..Len(cache) :
        \/ cache[j].hit_count < cache[i].hit_count
        \/ cache[j].hit_count = cache[i].hit_count
              /\ cache[j].timestamp < cache[i].timestamp
        \/ cache[j].hit_count = cache[i].hit_count
              /\ cache[j].timestamp = cache[i].timestamp /\ j < i})

\* F applied to the value of v, which is worked out once.
With(v, F(_)) == CHOOSE y \in {F(x) : x \in {v}} : TRUE

\* A sequence without the elements at the indices in gone.
RECURSIVE Without(_, _, _)
Without(cache, gone, i) ==
    IF i > Len(cache) THEN <<>>
    ELSE IF i \in gone THEN Without(cache, gone, i + 1)
    ELSE <<cache[i]>> \o Without(cache, gone, i + 1)

\* SearchCache._evict_least_used
Decile == 10
EvictLeastUsed(cache) ==
    LET half == Len(cache) \div Decile
        num_to_remove == IF half > 1 THEN half ELSE 1
    IN With({i \in 1..Len(cache) : SortRank(cache, i) < num_to_remove},
            LAMBDA gone : Without(cache, gone, 1))

\* SearchCache._save_entry_to_disk: the file <cache_key>.pkl is rewritten.
SaveEntryToDisk(files, entry) ==
    {f \in files : f.key # entry.key} \cup {entry}

\* SearchCache.__init__ over an empty cache directory
SearchCacheInit ==
    /\ ttl_hours \in 1..MaxTTLHours
    /\ max_cache_size \in 1..MaxCacheSize
    /\ similarity_threshold = <<75, 100>>
    /\ enable_file_cache \in BOOLEAN
    /\ memo = Memo
    /\ memory_cache = <<>>
    /\ disk = {}
    /\ stats = CacheStats
    /\ queried = 0
    /\ last_op = [op |-> "init"]

notCache == <<rlVars, cfgVars, task, last_release>>

\* self.stats.total_queries += 1
CountQueryLost(st) == st
CountQuery(st) == [st EXCEPT !.total_queries = @ + 1]
\* self.stats.cache_misses += 1
CountMissNot(st) == st
CountMiss(st) == [st EXCEPT !.cache_misses = @ + 1]

\* SearchCache.cache_results on the cache (memory, files, statistics): the
\* cache it leaves.
CacheResults(cache, files, st, query, results, topic, section_type) ==
    IF results = <<>>
    THEN [cache |-> cache, disk |-> files, stats |-> st]
    ELSE LET cache_key == GenerateCacheKey(query, topic)
             entry == [key |-> cache_key, query |-> query,
                       results |-> results, timestamp |-> now,
                       topic |-> topic, section_type |-> section_type,
                       hit_count |-> 0]
             added == DictAssign(cache, entry)
             kept == IF Len(added) > max_cache_size
                     THEN EvictLeastUsed(added) ELSE added
         IN [cache |-> kept,
             disk |-> IF enable_file_cache
                      THEN SaveEntryToDisk(files, entry) ELSE files,
             stats |-> [st EXCEPT !.cache_size = Len(kept)]]

\* entry.hit_count += 1
CountHitTwice(entry) == [entry EXCEPT !.hit_count = @ + 2]
CountHit(entry) == [entry EXCEPT !.hit_count = @ + 1]

\* SearchCache.get_cached_results on the cache: the cache it leaves and
\* what it returns (found is FALSE for None; expired tells that the else
\* branch `del self.memory_cache[cache_key]` ran).
GetCachedResults(cache0, st, query, topic) ==
    LET cache_key == GenerateCacheKey(query, topic)
        idx == KeyIndex(cache0, cache_key)
        counted == CountQuery(st)
    IN IF idx # 0 /\ ~IsExpired(cache0[idx])
       THEN [cache |-> [cache0 EXCEPT ![idx] = CountHit(@)],
             stats |-> [counted EXCEPT !.cache_hits = @ + 1],
             path |-> "exact", found |-> TRUE, expired |-> FALSE,
             results |-> cache0[idx].results, entry |-> cache0[idx]]
       ELSE LET cache == IF idx # 0 THEN DictDelete(cache0, idx) ELSE cache0
                similar == FindSimilarCachedQuery(cache, query, topic)
            IN IF similar # 0
               THEN [cache |-> [cache EXCEPT ![similar] = CountHit(@)],
                     stats |-> [counted EXCEPT !.cache_hits = @ + 1],
                     path |-> "similar", found |-> TRUE,
                     expired |-> (idx # 0),
                     results |-> cache[similar].results,
                     entry |-> cache[similar]]
               ELSE [cache |-> cache,
                     stats |-> CountMiss(counted),
                     path |-> "miss", found |-> FALSE,
                     expired |-> (idx # 0), results |-> <<>>,
                     entry |-> <<>>]

\* SearchCache.cache_results
cache_results(query, results, topic, section_type) ==
    /\ started < MaxStores
    /\ started' = started + 1
    /\ LET out == CacheResults(memory_cache, disk, stats, query, results,
                               topic, section_type)
       IN /\ memory_cache' = out.cache
          /\ disk' = out.disk
          /\ stats' = out.stats
    /\ last_op' = [op |-> "store", query |-> query, topic |-> topic,
                   results |-> results]
    /\ UNCHANGED <<now, cacheCfg, queried, notCache>>

\* SearchCache.get_cached_results
get_cached_results(query, topic, section_type) ==
    /\ queried < MaxLookups
    /\ queried' = queried + 1
    /\ LET out == GetCachedResults(memory_cache, stats, query, topic)
       IN /\ memory_cache' = out.cache
          /\ stats' = out.stats
          /\ last_op' = [op |-> "lookup", query |-> query, topic |-> topic,
                         path |-> out.path, found |-> out.found,
                         expired |-> out.expired,
                         results |-> out.results, entry |-> out.entry,
                         after |-> last_op.op]
    /\ UNCHANGED <<now, cacheCfg, disk, started, notCache>>

\* SearchCache.clear_expired_entries
clear_expired_entries ==
    /\ queried < MaxLookups
    /\ queried' = queried + 1
    /\ LET expired_keys == {i \in 1..Len(memory_cache) : IsExpired(memory_cache[i])}
           kept == Without(memory_cache, expired_keys, 1)
       IN /\ memory_cache' = kept
          /\ disk' = IF enable_file_cache
                     THEN {f \in disk : \A i \in expired_keys :
                                           f.key # memory_cache[i].key}
                     ELSE disk
          /\ stats' = [stats EXCEPT !.cache_size = Len(kept)]
          /\ last_op' = [op |-> "clear_expired", removed |-> Cardinality(expired_keys)]
    /\ UNCHANGED <<now, cacheCfg, started, notCache>>

\* self.stats = CacheStats() in clear_cache
ResetStatsKept(st) == st
ResetStats(st) == CacheStats

\* SearchCache.clear_cache
clear_cache ==
    /\ queried < MaxLookups
    /\ queried' = queried + 1
    /\ memory_cache' = <<>>
    /\ disk' = IF enable_file_cache THEN {} ELSE disk
    /\ stats' = ResetStats(stats)
    /\ last_op' = [op |-> "clear"]
    /\ UNCHANGED <<now, cacheCfg, started, notCache>>

\* if not entry.is_expired(self.ttl_hours), the test of a loaded file
LoadableAlways(entry) == TRUE
Loadable(entry) == ~IsExpired(entry)

\* The sequences that hold each element of a set once: the orders in which
\* os.listdir can name the files.
Orders(files) ==
    {o \in [1..Cardinality(files) -> files] :
        \A i, j \in 1..Cardinality(files) : i # j => o[i] # o[j]}

\* The process ends and a new one constructs SearchCache with the same
\* settings over the same cache_dir: SearchCache.__init__ with
\* _load_cache_from_disk, which reads the files in the order of os.listdir.
Restart ==
    /\ queried < MaxLookups
    /\ queried' = queried + 1
    /\ IF enable_file_cache
       THEN LET loaded == {f \in disk : Loadable(f)}
            IN /\ memory_cache' \in Orders(loaded)
               /\ disk' = loaded
               /\ stats' = [CacheStats EXCEPT !.cache_size = Cardinality(loaded)]
       ELSE /\ memory_cache' = <<>>
            /\ stats' = CacheStats
            /\ UNCHANGED disk
    /\ last_op' = [op |-> "restart"]
    /\ UNCHANGED <<now, cacheCfg, started, notCache>>

\* An hour passes between two cache operations.
CacheTick ==
    /\ now < StartTime + MaxCacheTicks * TickSeconds
    /\ now' = now + TickSeconds
    /\ last_op' = [op |-> "tick"]
    /\ UNCHANGED <<cacheCfg, memory_cache, disk, stats, started, queried, notCache>>

\* ------------------------------------------------------------ search flow
\* The lists of queries _search_web is given, of two queries that are not
\* similar.
QueryLists ==
    UNION {[1..n -> {<<"a", " ", "b">>, <<"a">>}] : n \in 1..MaxQueries}
\* What tavily.search returns: a dict with or without a "results" list.
Responses ==
    {[has |-> FALSE, results |-> <<>>],
     [has |-> TRUE, results |-> <<>>],
     [has |-> TRUE, results |-> <<1>>]}

\* The outcomes of the runs of tavily.search in one call_tavily_api: it
\* succeeds at once, after one failure, or after two.
SearchPlans == {p \in Plans : p[3] = "ok"}

\* The flow after the query at flow[t].i: the next query, or the end of the
\* `for query in queries` loop.
NextQuery(f) ==
    IF f.i < Len(f.queries) THEN [f EXCEPT !.i = @ + 1, !.phase = "lookup"]
                            ELSE [f EXCEPT !.i = @ + 1, !.phase = "done"]

\* A coroutine awaits ImprovedReportGenerator._search_web(queries, topic,
\* section_type): up to the first query of the loop.
search_web(t, queries, topic) ==
    /\ flow[t].phase = "idle"
    /\ task[t].pc = "idle"
    /\ flow' = [flow EXCEPT ![t] = [IdleFlow EXCEPT !.phase = "lookup",
                                       !.queries = queries, !.topic = topic,
                                       !.i = 1]]
    /\ plan' \in SearchPlans  \* what the runs of tavily.search from now on meet
    /\ UNCHANGED <<now, rlVars, max_retries, base_delay, max_delay,
                   rate_limiting_enabled, retry_enabled, task,
                   last_release, started, cacheVars, tok, js,
                   global_rate_limiter>>

\* if cached_results: the lookup returned a list that is not empty
IsCacheHitNever(out) == FALSE
IsCacheHit(out) == out.found /\ out.results # <<>>

\* One iteration of the loop, from get_cached_results to `continue` on a
\* hit or, on a miss, into call_tavily_api(tavily_call) up to its first
\* suspension or its end; tavily_call is an `async def`.
SearchLookup(t) ==
    /\ flow[t].phase = "lookup"
    /\ LET f == flow[t]
           query == f.queries[f.i]
           out == GetCachedResults(memory_cache, stats, query, f.topic)
       IN /\ memory_cache' = out.cache
          /\ stats' = out.stats
          /\ queried' = queried + 1
          /\ last_op' = [op |-> "lookup", query |-> query, found |-> out.found]
          /\ IF IsCacheHit(out)
             THEN /\ flow' = [flow EXCEPT ![t] =
                                 NextQuery([f EXCEPT !.cache_hits = @ + 1])]
                  /\ UNCHANGED <<task, last_anthropic_call, last_tavily_call,
                                 last_release>>
             ELSE /\ flow' = [flow EXCEPT ![t] = [f EXCEPT !.cache_misses = @ + 1,
                                                     !.phase = "await"]]
                  /\ CallApiEnter(t, "tavily", "async")
    /\ UNCHANGED <<now, anthropic_delay, tavily_delay, max_retries, base_delay,
                   max_delay, rate_limiting_enabled, retry_enabled, plan,
                   started, cacheCfg, disk, tok, js, global_rate_limiter>>

\* call_tavily_api has returned or raised: the rest of the iteration, with
\* cache_results when the response holds a "results" list, or the `except`
\* branch.
SearchResume(t, resp) ==
    /\ flow[t].phase = "await"
    /\ task[t].pc \in {"returned", "raised"}
    /\ task' = [task EXCEPT ![t] = IdleTask]
    /\ LET f == flow[t]
           query == f.queries[f.i]
       IN IF task[t].pc = "returned" /\ resp.has
          THEN LET out == CacheResults(memory_cache, disk, stats, query,
                                       resp.results, f.topic, "intro")
               IN /\ memory_cache' = out.cache
                  /\ disk' = out.disk
                  /\ stats' = out.stats
                  /\ last_op' = [op |-> "store", query |-> query]
                  /\ flow' = [flow EXCEPT ![t] = NextQuery([f EXCEPT !.stores = @ + 1])]
          ELSE /\ flow' = [flow EXCEPT ![t] =
                     NextQuery(IF task[t].pc = "raised"
                               THEN [f EXCEPT !.failed = @ + 1] ELSE f)]
               /\ UNCHANGED <<memory_cache, disk, stats, last_op>>
    /\ UNCHANGED <<now, rlVars, max_retries, base_delay, max_delay,
                   rate_limiting_enabled, retry_enabled, plan, last_release,
                   started, cacheCfg, queried, tok, js, global_rate_limiter>>

\* ---------------------------------------------------------- token budget
\* A text is modelled by its length; the content of a source by the lengths
\* of its sentences, written "s1. s2. ... sn." in one paragraph (<<>> is
\* no content), which a run of blank lines may follow.
ModelLimits == {200000, 8192, 128000}
ResponseBuffer == 2000
MinSourceContent == 200
MaxSourceContent == 1000
MinTokensPerSource == 50
MinSources == 3
SafetyMargin == 20
FormatOverhead == 28  \* "Source: ", "\nURL: ", "\nContent: " and "\n---"

\* TokenManager.estimate_tokens: len(text) // 3.5
EstimateTokens(length) == (2 * length) \div 7
\* The shortest text whose estimate is tokens.
LengthOf(tokens) == (7 * tokens + 1) \div 2

\* self.available_tokens and self.sources_token_limit
AvailableTokensNoBuffer(limit) == limit
AvailableTokens(limit) == limit - ResponseBuffer
SourcesTokenLimit(limit) == (AvailableTokens(limit) * 6) \div 10

\* A run of w newlines at the end of a content, and the parts of a content.
Blank(w) == 0 - w
BlankTail(content) ==
    IF content # <<>> /\ content[Len(content)] < 0
    THEN 0 - content[Len(content)] ELSE 0
Sentences(content) ==
    IF BlankTail(content) > 0 THEN SubSeq(content, 1, Len(content) - 1)
                              ELSE content

\* The arguments of optimize_sources_for_context.
SourceShapes ==
    {[title |-> 60, url |-> 60, content |-> c] :
        c \in {<<>>, <<100>>, <<60, 60, 60, 300>>, <<5000>>,
               <<30, Blank(5000)>>}}
SourceLists ==
    UNION {[1..n -> SourceShapes] : n \in 0..MaxMixed}
    \cup {[i \in 1..MaxSources |-> sh] : sh \in SourceShapes}
    \cup {[i \in 1..ScenarioSources |-> sh] : sh \in SourceShapes}
    \cup {[i \in 1..ScenarioSources |->
              [title |-> 60, url |-> 60,
               content |-> IF i = 1 THEN <<>> ELSE <<5000>>]]}
    \cup {[i \in 1..ScenarioSources |->
              [title |-> 60, url |-> 60,
               content |-> IF i <= MinSources THEN <<>> ELSE <<5000>>]]}
PromptLengths(limit) ==
    {LengthOf(tokens) : tokens \in
        ({0, 190000, limit - ResponseBuffer - MinTokensPerSource * MaxSources,
          limit - ResponseBuffer - MinTokensPerSource * MaxSources + 1,
          limit - ResponseBuffer - ScenarioBudget}
         \cup {limit - ResponseBuffer + d : d \in (0 - MaxSlack)..MaxSlack})
        \cap Nat}

\* TokenUsage()
TokenUsage ==
    [prompt_tokens |-> 0, sources_tokens |-> 0, total_tokens |-> 0,
     context_limit |-> 0, usage_percentage |-> <<0, 1>>]

\* TokenManager.__init__ and the arguments of one call
TokenManagerInit ==
    \E limit \in ModelLimits :
        tok \in [called : {FALSE}, context_limit : {limit},
                 prompt_length : PromptLengths(limit),
                 search_results : SourceLists,
                 optimized_sources : {<<>>}, usage : {TokenUsage}]

\* len(content)
RECURSIVE TextLength(_)
TextLength(sentences) ==
    IF sentences = <<>> THEN 0
    ELSE IF Len(sentences) = 1 THEN Head(sentences) + 1
    ELSE Head(sentences) + 2 + TextLength(Tail(sentences))
ContentLength(content) == TextLength(Sentences(content)) + BlankTail(content)

\* Strategy 1 of _intelligently_truncate_content: len(truncated) after the
\* loop over the sentences from the i-th on.
RECURSIVE WholeSentences(_, _, _, _)
WholeSentences(content, i, truncated, char_limit) ==
    IF i > Len(content) THEN truncated
    ELSE IF content[i] < 0  \* if not sentence: continue
    THEN WholeSentences(content, i + 1, truncated, char_limit)
    ELSE IF truncated + content[i] + 1 <= char_limit - SafetyMargin
    THEN WholeSentences(content, i + 1, truncated + content[i] + 2, char_limit)
    ELSE truncated

\* Strategy 3: len((content[: char_limit - 3] + "...").strip())
HardCutNoRoom(content, char_limit) ==
    IF Sentences(content) = <<>> THEN 3 ELSE char_limit + 3
HardCut(content, char_limit) ==
    IF Sentences(content) = <<>> THEN 3 ELSE char_limit

\* TokenManager._intelligently_truncate_content: the length of its result.
IntelligentlyTruncateContent(content, char_limit) ==
    LET sentences == WholeSentences(content, 1, 0, char_limit)
        stripped == IF sentences > 0 THEN sentences - 1 ELSE 0
        paragraph == TextLength(Sentences(content))
        remaining == char_limit - 3
        \* the one paragraph that is not blank: whole when it fits, else a
        \* partial paragraph
        paragraphs == IF paragraph <= char_limit - SafetyMargin THEN paragraph
                      ELSE IF remaining > 50 THEN remaining + 3 ELSE 0
    IN IF ContentLength(content) <= char_limit THEN ContentLength(content)
       ELSE IF stripped >= 50 THEN stripped
       ELSE IF paragraphs >= 50 THEN paragraphs
       ELSE HardCut(content, char_limit)

\* The loop of _optimize_source_content from the i-th source on.
RECURSIVE TruncateFrom(_, _, _)
TruncateFrom(search_results, i, char_limit) ==
    IF i > Len(search_results) THEN <<>>
    ELSE IF search_results[i].content = <<>>
    THEN TruncateFrom(search_results, i + 1, char_limit)
    ELSE <<[title |-> search_results[i].title, url |-> search_results[i].url,
            content |-> IntelligentlyTruncateContent(search_results[i].content,
                                                     char_limit)]>>
         \o TruncateFrom(search_results, i + 1, char_limit)

\* if tokens_per_source < 50
TooThinNever(tokens_per_source) == FALSE
TooThin(tokens_per_source) == tokens_per_source < MinTokensPerSource

\* TokenManager._optimize_source_content: the sources kept, each with the
\* length of its truncated content.
OptimizeSourceContent(search_results, token_budget) ==
    IF search_results = <<>> THEN <<>>
    ELSE LET even == token_budget \div Len(search_results)
             min_sources == Min(MinSources, Len(search_results))
             thin == TooThin(even)
             tokens_per_source == IF thin THEN token_budget \div min_sources
                                          ELSE even
             kept == IF thin THEN SubSeq(search_results, 1, min_sources)
                             ELSE search_results
             capped == Min((tokens_per_source * 7) \div 2, MaxSourceContent)
             char_limit == IF capped > MinSourceContent THEN capped
                                                        ELSE MinSourceContent
         IN TruncateFrom(kept, 1, char_limit)

\* TokenManager._format_single_source: the length of the text
FormatSingleSource(src) == FormatOverhead + src.title + src.url + src.content

\* sum(estimate_tokens(_format_single_source(src)) for src in optimized)
RECURSIVE SourcesTokens(_)
SourcesTokens(optimized) ==
    IF optimized = <<>> THEN 0
    ELSE EstimateTokens(FormatSingleSource(Head(optimized)))
            + SourcesTokens(Tail(optimized))

\* if remaining_tokens <= 0
NoRoomBelowZero(remaining_tokens) == remaining_tokens < 0
NoRoom(remaining_tokens) == remaining_tokens <= 0

\* TokenManager.optimize_sources_for_context
optimize_sources_for_context ==
    /\ ~tok.called
    /\ LET prompt_tokens == EstimateTokens(tok.prompt_length)
           remaining_tokens == AvailableTokens(tok.context_limit) - prompt_tokens
           sources_token_budget ==
               Min(remaining_tokens, SourcesTokenLimit(tok.context_limit))
           optimized == OptimizeSourceContent(tok.search_results,
                                              sources_token_budget)
           sources_tokens == SourcesTokens(optimized)
           total_tokens == prompt_tokens + sources_tokens
       IN IF NoRoom(remaining_tokens)
          THEN tok' = [tok EXCEPT
                   !.called = TRUE,
                   !.optimized_sources = <<>>,
                   !.usage = [prompt_tokens |-> prompt_tokens,
                              sources_tokens |-> 0,
                              total_tokens |-> prompt_tokens,
                              context_limit |-> tok.context_limit,
                              usage_percentage |-> <<100, 1>>]]
          ELSE tok' = [tok EXCEPT
                   !.called = TRUE,
                   !.optimized_sources = optimized,
                   !.usage = [prompt_tokens |-> prompt_tokens,
                              sources_tokens |-> sources_tokens,
                              total_tokens |-> total_tokens,
                              context_limit |-> tok.context_limit,
                              usage_percentage |->
                                  <<total_tokens * 100, tok.context_limit>>]]
    /\ UNCHANGED <<now, rlVars, max_retries, base_delay, max_delay,
                   rate_limiting_enabled, retry_enabled, plan, flow, task,
                   last_release, started, cacheVars, js, global_rate_limiter>>

\* ------------------------------------------------------------ JSON parser
\* A text is the sequence of its lexical tokens: the punctuation of JSON,
\* string literals (without brackets, braces or back-quotes inside),
\* number literals, a line break, a code fence, the language tags, a prose
\* word and the start of a // comment.  Blank space between tokens is not
\* written; a tag follows its fence without space.
\* Three back-quotes.
Fence == "<fence>"
NL == "\n"
Comment == "//"
ProseWord == "w"
\* A run of "[" longer than the interpreter's recursion limit.
DeepOpen == "[[[...[[["
StringLiterals ==
    {"title", "sections", "queries", "search_queries", "items", "other", "a"}
NumberLiterals == {"1"}

\* The values json.loads returns, and None.
JStr(s) == [t |-> "str", v |-> <<s>>]
JNum(n) == [t |-> "num", v |-> <<n>>]
JArr(elements) == [t |-> "list", v |-> elements]
JObj(members) == [t |-> "dict", v |-> members]
None == [t |-> "None", v |-> <<>>]

\* The least element of a set of positions, 0 when there is none.
First(S) == IF S = {} THEN 0 ELSE CHOOSE x \in S : \A y \in S : x <= y
Last(S) == IF S = {} THEN 0 ELSE CHOOSE x \in S : \A y \in S : x >= y
Positions(toks, T) == {i \in 1..Len(toks) : toks[i] \in T}

\* dict[k] = v
SetItem(members, k, val) ==
    IF \E i \in 1..Len(members) : members[i][1] = k
    THEN [i \in 1..Len(members) |->
             IF members[i][1] = k THEN <<k, val>> ELSE members[i]]
    ELSE Append(members, <<k, val>>)
HasKey(data, k) == \E i \in 1..Len(data.v) : data.v[i][1] = k
\* data[k], data.get(k)
GetItem(data, k) ==
    IF HasKey(data, k)
    THEN data.v[CHOOSE i \in 1..Len(data.v) : data.v[i][1] = k][2]
    ELSE None

\* An outcome of a parse: a value ("ok"), json.JSONDecodeError ("fail") or
\* another exception ("raise").
Outcome(st) == [st |-> st, val |-> None, next |-> 0]
Parsed(val, next) == [st |-> "ok", val |-> val, next |-> next]

\* json.loads: the scanner from the i-th token of a text without line
\* breaks.
RECURSIVE ParseValue(_, _)
RECURSIVE ParseElements(_, _, _)
RECURSIVE ParseMembers(_, _, _)
ParseValue(toks, i) ==
    IF i > Len(toks) THEN Outcome("fail")
    ELSE IF toks[i] \in StringLiterals THEN Parsed(JStr(toks[i]), i + 1)
    ELSE IF toks[i] \in NumberLiterals THEN Parsed(JNum(toks[i]), i + 1)
    ELSE IF toks[i] = DeepOpen THEN Outcome("raise")
    ELSE IF toks[i] = "["
    THEN IF i + 1 <= Len(toks) /\ toks[i + 1] = "]"
         THEN Parsed(JArr(<<>>), i + 2)
         ELSE ParseElements(toks, i + 1, <<>>)
    ELSE IF toks[i] = "{"
    THEN IF i + 1 <= Len(toks) /\ toks[i + 1] = "}"
         THEN Parsed(JObj(<<>>), i + 2)
         ELSE ParseMembers(toks, i + 1, <<>>)
    ELSE Outcome("fail")
ParseElements(toks, i, elements) ==
    With(ParseValue(toks, i), LAMBDA e :
        IF e.st # "ok" THEN Outcome(e.st)
        ELSE IF e.next > Len(toks) THEN Outcome("fail")
        ELSE IF toks[e.next] = "]"
        THEN Parsed(JArr(Append(elements, e.val)), e.next + 1)
        ELSE IF toks[e.next] = ","
        THEN ParseElements(toks, e.next + 1, Append(elements, e.val))
        ELSE Outcome("fail"))
ParseMembers(toks, i, members) ==
    IF i + 1 > Len(toks) \/ toks[i] \notin StringLiterals \/ toks[i + 1] # ":"
    THEN Outcome("fail")
    ELSE With(ParseValue(toks, i + 2), LAMBDA e :
            IF e.st # "ok" THEN Outcome(e.st)
            ELSE IF e.next > Len(toks) THEN Outcome("fail")
            ELSE IF toks[e.next] = "}"
            THEN Parsed(JObj(SetItem(members, toks[i], e.val)), e.next + 1)
            ELSE IF toks[e.next] = ","
            THEN ParseMembers(toks, e.next + 1,
                              SetItem(members, toks[i], e.val))
            ELSE Outcome("fail"))

\* json.loads(s)
Loads(toks) ==
    With(SelectSeq(toks, LAMBDA c : c # NL), LAMBDA s :
        With(ParseValue(s, 1), LAMBDA r :
            IF r.st = "ok" /\ r.next # Len(s) + 1 THEN Outcome("fail") ELSE r))

\* str.strip(), str.split("\n") and "\n".join
RECURSIVE StripText(_)
StripText(toks) ==
    With(toks, LAMBDA s :
        IF s = <<>> THEN <<>>
        ELSE IF Head(s) = NL THEN StripText(Tail(s))
        ELSE IF s[Len(s)] = NL THEN StripText(SubSeq(s, 1, Len(s) - 1))
        ELSE s)
RECURSIVE SplitLines(_)
SplitLines(toks) ==
    With(toks, LAMBDA s :
        With(First(Positions(s, {NL})), LAMBDA k :
            IF k = 0 THEN <<s>>
            ELSE <<SubSeq(s, 1, k - 1)>>
                    \o SplitLines(SubSeq(s, k + 1, Len(s)))))
RECURSIVE JoinLines(_)
JoinLines(lines) ==
    With(lines, LAMBDA l :
        IF l = <<>> THEN <<>>
        ELSE IF Len(l) = 1 THEN Head(l)
        ELSE Head(l) \o <<NL>> \o JoinLines(Tail(l)))

\* RobustJSONParser._clean_json_string: each line loses its // comment
\* (a string literal holds none here) and the empty lines are dropped.
CleanJsonString(json_str) ==
    With(SplitLines(json_str), LAMBDA lines :
        LET cut == [n \in 1..Len(lines) |->
                      LET comment_start == First(Positions(lines[n], {Comment}))
                      IN IF comment_start > 0
                         THEN SubSeq(lines[n], 1, comment_start - 1)
                         ELSE lines[n]]
        IN JoinLines(SelectSeq(cut, LAMBDA line : line # <<>>)))

\* The four patterns of _extract_from_markdown: whether the fence must
\* carry the tag json, and whether line breaks must set off the block.
Patterns ==
    <<[tagged |-> TRUE, lines |-> TRUE], [tagged |-> FALSE, lines |-> TRUE],
      [tagged |-> TRUE, lines |-> FALSE], [tagged |-> FALSE, lines |-> FALSE]>>
\* Where group 1 starts when the pattern's opening matches at i (0 when it
\* does not), and where the group ends.
GroupStart(text, i, p) ==
    LET a == IF p.tagged THEN i + 2 ELSE i + 1
    IN IF \/ text[i] # Fence
          \/ p.tagged /\ (i + 1 > Len(text) \/ text[i + 1] # "json")
          \/ p.lines /\ (a > Len(text) \/ text[a] # NL)
       THEN 0
       ELSE IF p.lines
       THEN First({s \in a..(Len(text) + 1) :
                     s = Len(text) + 1 \/ text[s] # NL})
       ELSE a
GroupEnd(text, s, p) ==
    IF p.lines
    THEN First({j \in s..(Len(text) - 1) :
                  text[j] = NL /\ text[j + 1] = Fence})
    ELSE First({j \in s..Len(text) : text[j] = Fence})
\* re.search(pattern, text, re.DOTALL | re.IGNORECASE): group 1 of the
\* leftmost match.
Search(text, p) ==
    With(First({k \in 1..Len(text) :
                  /\ GroupStart(text, k, p) > 0
                  /\ GroupEnd(text, GroupStart(text, k, p), p) > 0}),
         LAMBDA i :
            IF i = 0 THEN [match |-> FALSE, group |-> <<>>]
            ELSE [match |-> TRUE,
                  group |-> SubSeq(text, GroupStart(text, i, p),
                                   GroupEnd(text, GroupStart(text, i, p), p) - 1)])

\* RobustJSONParser._extract_from_markdown, from the n-th pattern on
RECURSIVE ExtractFromMarkdown(_, _)
ExtractFromMarkdown(text, n) ==
    IF n > Len(Patterns) THEN Outcome("fail")
    ELSE With(Search(text, Patterns[n]), LAMBDA m :
            With(Loads(CleanJsonString(StripText(m.group))), LAMBDA r :
                IF m.match /\ r.st # "fail" THEN r
                ELSE ExtractFromMarkdown(text, n + 1)))

\* One attempt of _extract_raw_json: from the first opening to the last
\* closing character.
RawSpan(text, open, close) ==
    LET start_idx == First(Positions(text, open))
        end_idx == Last(Positions(text, {close}))
    IN IF start_idx > 0 /\ end_idx > start_idx
       THEN Loads(CleanJsonString(SubSeq(text, start_idx, end_idx)))
       ELSE Outcome("fail")

\* RobustJSONParser._extract_raw_json
ExtractRawJson(text, expected_type) ==
    With(IF expected_type \in {"array", "any"}
         THEN RawSpan(text, {"[", DeepOpen}, "]")
         ELSE Outcome("fail"),
         LAMBDA array :
            IF array.st # "fail" THEN array
            ELSE IF expected_type \in {"object", "any"}
            THEN RawSpan(text, {"{"}, "}")
            ELSE Outcome("fail"))

\* The loop of _extract_cleaned_json over the lines from the n-th on.
RECURSIVE JsonLines(_, _, _)
JsonLines(lines, n, in_json) ==
    IF n > Len(lines) THEN <<>>
    ELSE IF lines[n] # <<>> /\ Head(lines[n]) \in {"{", "[", DeepOpen}
    THEN <<lines[n]>> \o JsonLines(lines, n + 1, TRUE)
    ELSE IF /\ in_json
            /\ lines[n] # <<>>
            /\ lines[n][Len(lines[n])] \in {"}", "]"}
    THEN <<lines[n]>>
    ELSE IF in_json THEN <<lines[n]>> \o JsonLines(lines, n + 1, TRUE)
    ELSE JsonLines(lines, n + 1, FALSE)

\* RobustJSONParser._extract_cleaned_json
ExtractCleanedJson(text) ==
    With(SplitLines(StripText(text)), LAMBDA lines :
        With(JsonLines(lines, 1, FALSE), LAMBDA json_lines :
            IF json_lines # <<>>
            THEN Loads(CleanJsonString(JoinLines(json_lines)))
            ELSE Outcome("fail")))

\* What a function hands to its caller: a value, None, or an exception.
Returned(val) == [st |-> "returned", val |-> val]
Raised == [st |-> "raised", val |-> None]
Result(r) ==
    IF r.st = "raise" THEN Raised
    ELSE IF r.st = "ok" THEN Returned(r.val) ELSE Returned(None)

\* RobustJSONParser.extract_json_from_text
ExtractJsonFromText(text, expected_type) ==
    IF text = <<>> THEN Returned(None)
    ELSE With(ExtractFromMarkdown(text, 1), LAMBDA markdown :
            IF markdown.st # "fail" THEN Result(markdown)
            ELSE With(ExtractRawJson(text, expected_type), LAMBDA raw :
                    IF raw.st # "fail" THEN Result(raw)
                    ELSE Result(ExtractCleanedJson(text))))

\* bool(data)
Truthy(data) == data.t # "None" /\ data.v # <<>>

\* RobustJSONParser.validate_json_structure
ValidateJsonStructure(data, required_fields) ==
    /\ data.t = "dict"
    /\ \A field \in required_fields : HasKey(data, field)

\* parse_report_plan
ParseReportPlan(text) ==
    With(ExtractJsonFromText(text, "object"), LAMBDA r :
        IF r.st = "raised" THEN Raised
        ELSE IF /\ Truthy(r.val)
                /\ ValidateJsonStructure(r.val, {"title", "sections"})
        THEN IF GetItem(r.val, "sections").t # "list" THEN Returned(None)
             ELSE Returned(r.val)
        ELSE Returned(None))

\* for key in ["queries", "search_queries", "items"]
QueryKeys(data) ==
    SelectSeq(<<"queries", "search_queries", "items">>,
              LAMBDA key : HasKey(data, key) /\ GetItem(data, key).t = "list")

\* parse_search_queries
ParseSearchQueries(text) ==
    With(ExtractJsonFromText(text, "array"), LAMBDA r :
        With(IF r.val.t = "dict" /\ QueryKeys(r.val) # <<>>
             THEN GetItem(r.val, Head(QueryKeys(r.val)))
             ELSE r.val,
             LAMBDA data :
                IF r.st = "raised" THEN Raised
                ELSE IF r.val.t = "dict" /\ QueryKeys(r.val) = <<>>
                THEN Returned(None)
                ELSE IF Truthy(data) /\ data.t = "list"
                THEN IF \A n \in 1..Len(data.v) : data.v[n].t = "str"
                     THEN Returned(data) ELSE Returned(None)
                ELSE Returned(None)))

\* The texts given to the parser: a JSON text, whole or damaged, on one
\* line or on several, bare or in a code fence, with prose around it.
ExpectedTypes == {"object", "array", "any"}
WellFormedPayloads ==
    {<<"{", "title", ":", "a", ",", "sections", ":", "[", "a", "]", "}">>,
     <<"{", "title", ":", "1", ",", "sections", ":", "[", "]", "}">>,
     <<"{", "title", ":", "a", ",", "sections", ":", "a", "}">>,
     <<"{", "title", ":", "a", "}">>,
     <<"{", "title", ":", "a", ",", "sections", ":", "[", "]", ",",
       "other", ":", "1", "}">>,
     <<"[", "a", ",", "other", "]">>,
     <<"[", "a", ",", "1", "]">>,
     <<"[", "]">>,
     <<"{", "queries", ":", "[", "a", "]", "}">>,
     <<"{", "other", ":", "[", "a", "]", "}">>,
     <<"{", "items", ":", "[", "a", "]", ",", "queries", ":", "[", "other",
       "]", "}">>,
     <<"{", "search_queries", ":", "[", "a", "]", ",", "items", ":", "1", "}">>,
     <<"[", "{", "a", ":", "1", "}", ",", "{", "a", ":", "1", "}", "]">>,
     <<"a">>}
\* Cut off mid-structure; a trailing comma; an unquoted key; unbalanced
\* brackets; nesting beyond the recursion limit.
MalformedPayloads ==
    UNION {{SubSeq(p, 1, n) : n \in 1..(Len(p) - 1)} : p \in WellFormedPayloads}
    \cup {<<"[", "a", ",", "]">>,
          <<"{", "a", ":", "1", ",", "}">>,
          <<"{", ProseWord, ":", "[", "1", "]", "}">>,
          <<"{", "a", ":", "[", "1", "}">>,
          <<"[", "a", "]", "]">>,
          <<DeepOpen, "]">>}
\* JSON with a comment, as language models write it.
CommentedPayloads == {<<"{", "a", ":", "1", ",", Comment, ProseWord, NL,
                        "other", ":", "[", "a", "]", "}">>}
Payloads ==
    {[toks |-> p, kind |-> "well-formed"] : p \in WellFormedPayloads}
    \cup {[toks |-> p, kind |-> "malformed"] : p \in MalformedPayloads}
    \cup {[toks |-> p, kind |-> "commented"] : p \in CommentedPayloads}

\* The payload written on several lines.
RECURSIVE BreakAfterCommas(_)
BreakAfterCommas(toks) ==
    With(toks, LAMBDA s :
        IF s = <<>> THEN <<>>
        ELSE IF Head(s) = "," THEN <<",", NL>> \o BreakAfterCommas(Tail(s))
        ELSE <<Head(s)>> \o BreakAfterCommas(Tail(s)))
Pretty(toks) ==
    IF Len(toks) < 2 THEN toks
    ELSE <<Head(toks), NL>>
            \o BreakAfterCommas(SubSeq(toks, 2, Len(toks) - 1))
            \o <<NL, toks[Len(toks)]>>

Layouts ==
    [style : {"bare"}, tag : {<<>>}, lines : {FALSE}, pretty : BOOLEAN,
     before : 0..MaxProse, after : 0..MaxProse]
    \cup [style : {"fenced"}, tag : {<<>>, <<"json">>, <<"js">>},
          lines : BOOLEAN, pretty : BOOLEAN,
          before : 0..MaxProse, after : 0..MaxProse]
TextOf(toks, layout) ==
    LET body == IF layout.pretty THEN Pretty(toks) ELSE toks
        break == IF layout.lines THEN <<NL>> ELSE <<>>
        block == IF layout.style = "fenced"
                 THEN <<Fence>> \o layout.tag \o break \o body \o break
                         \o <<Fence>>
                 ELSE body
        before == IF layout.before = 0 THEN <<>>
                  ELSE [n \in 1..layout.before |-> ProseWord] \o <<NL>>
        after == IF layout.after = 0 THEN <<>>
                 ELSE <<NL>> \o [n \in 1..layout.after |-> ProseWord]
    IN before \o block \o after

\* The calls made on the parser.
ParserCalls ==
    {[op |-> "extract_json_from_text", expected_type |-> e] :
        e \in ExpectedTypes}
    \cup {[op |-> "parse_report_plan", expected_type |-> "object"],
          [op |-> "parse_search_queries", expected_type |-> "array"]}

\* One call about to be made on one text.
ParserInit ==
    \E payload \in Payloads, layout \in Layouts, call \in ParserCalls :
        js = [called |-> FALSE, payload |-> payload.toks,
              kind |-> payload.kind, layout |-> layout,
              text |-> TextOf(payload.toks, layout), op |-> call.op,
              expected_type |-> call.expected_type, out |-> Returned(None)]

\* The call is made.
Call(op, out) ==
    /\ ~js.called
    /\ js.op = op
    /\ js' = With(out, LAMBDA o : [js EXCEPT !.called = TRUE, !.out = o])
    /\ UNCHANGED <<now, rlVars, max_retries, base_delay, max_delay,
                   rate_limiting_enabled, retry_enabled, plan, flow, tok,
                   task, last_release, started, cacheVars, global_rate_limiter>>
extract_json_from_text ==
    Call("extract_json_from_text",
         ExtractJsonFromText(js.text, js.expected_type))
parse_report_plan == Call("parse_report_plan", ParseReportPlan(js.text))
parse_search_queries ==
    Call("parse_search_queries", ParseSearchQueries(js.text))

\* ------------------------------------------------------- specifications
\* The rate limiter alone, awaited by concurrent coroutines.
InitRL ==
    /\ now = StartTime
    /\ RateLimiterInit
    /\ max_retries = 0 /\ base_delay = 1 /\ max_delay = 1
    /\ rate_limiting_enabled = TRUE /\ retry_enabled = TRUE
    /\ plan = [i \in 1..PlanLen |-> "ok"]
    /\ global_rate_limiter = None
    /\ task = [t \in Tasks |-> IdleTask]
    /\ last_release = [a \in Apis |-> NoSleep]
    /\ started = 0
    /\ flow = [t \in Tasks |-> IdleFlow]
    /\ js = NoJs
    /\ tok = NoTok
    /\ NoCache

NextRL ==
    \/ Tick
    \/ \E t \in Tasks : wait_for_anthropic(t)
    \/ \E t \in Tasks : wait_for_tavily(t)
    \/ \E t \in Tasks : WaitForWake(t)
    \/ \E t \in Tasks : Released(t)

SpecRL == InitRL /\ [][NextRL]_vars

\* The retry controller alone, on operations of every kind that follow
\* one plan of outcomes.
InitRetry ==
    /\ now = StartTime
    /\ anthropic_delay = 0 /\ tavily_delay = 0
    /\ last_anthropic_call = 0 /\ last_tavily_call = 0
    /\ RetryConfigInit
    /\ rate_limiting_enabled = TRUE /\ retry_enabled = TRUE
    /\ plan \in Plans
    /\ global_rate_limiter = None
    /\ task = [t \in Tasks |-> IdleTask]
    /\ last_release = [a \in Apis |-> NoSleep]
    /\ started = 0
    /\ flow = [t \in Tasks |-> IdleFlow]
    /\ js = NoJs
    /\ tok = NoTok
    /\ NoCache

NextRetry ==
    \/ Tick
    \/ \E t \in Tasks, k \in Kinds : retry_with_exponential_backoff(t, k)
    \/ \E t \in Tasks : BackoffWake(t)
    \/ \E t \in Tasks : Released(t)

SpecRetry == InitRetry /\ [][NextRetry]_vars

\* The retry controller when every invocation and every sleep completes:
\* the clock runs as long as a coroutine sleeps in asyncio.sleep(delay), and
\* the event loop resumes a coroutine whose sleep is over.
SleepTick ==
    /\ \E t \in Tasks : task[t].pc = "backoff" /\ now < task[t].wake
    /\ now' = now + 1
    /\ UNCHANGED <<rlVars, cfgVars, task, last_release, started, cacheVars>>

NextRetryLive ==
    \/ SleepTick
    \/ \E t \in Tasks, k \in Kinds : retry_with_exponential_backoff(t, k)
    \/ \E t \in Tasks : BackoffWake(t)
    \/ \E t \in Tasks : Released(t)

LiveRetry ==
    /\ InitRetry
    /\ [][NextRetryLive]_vars
    /\ WF_vars(SleepTick)
    /\ \A t \in Tasks : WF_vars(BackoffWake(t))

\* The API call manager: rate limiter, then retry controller or plain call.
InitMgr ==
    /\ now = StartTime
    /\ RateLimiterInit
    /\ max_retries \in 0..MaxRetriesCfg
    /\ base_delay = 1
    /\ max_delay = MaxMaxDelay
    /\ rate_limiting_enabled \in BOOLEAN
    /\ retry_enabled \in BOOLEAN
    /\ plan \in Plans
    /\ global_rate_limiter = None
    /\ task = [t \in Tasks |-> IdleTask]
    /\ last_release = [a \in Apis |-> NoSleep]
    /\ started = 0
    /\ flow = [t \in Tasks |-> IdleFlow]
    /\ js = NoJs
    /\ tok = NoTok
    /\ NoCache

NextMgr ==
    \/ Tick
    \/ \E t \in Tasks, k \in Kinds : call_anthropic_api(t, k)
    \/ \E t \in Tasks, k \in Kinds : call_tavily_api(t, k)
    \/ \E t \in Tasks : WaitForWake(t)
    \/ \E t \in Tasks : BackoffWake(t)
    \/ \E t \in Tasks : Released(t)

SpecMgr == InitMgr /\ [][NextMgr]_vars

\* The search cache under stores, lookups, clean-ups and the passing of time.
InitCache ==
    /\ now = StartTime
    /\ anthropic_delay = 0 /\ tavily_delay = 0
    /\ last_anthropic_call = 0 /\ last_tavily_call = 0
    /\ max_retries = 0 /\ base_delay = 1 /\ max_delay = 1
    /\ rate_limiting_enabled = TRUE /\ retry_enabled = TRUE
    /\ plan = [i \in 1..PlanLen |-> "ok"]
    /\ global_rate_limiter = None
    /\ task = [t \in Tasks |-> IdleTask]
    /\ last_release = [a \in Apis |-> NoSleep]
    /\ started = 0
    /\ flow = [t \in Tasks |-> IdleFlow]
    /\ js = NoJs
    /\ tok = NoTok
    /\ SearchCacheInit

NextCache ==
    \/ CacheTick
    \/ \E q \in Queries, r \in ResultLists, tp \in Topics, st \in SectionTypes :
          cache_results(q, r, tp, st)
    \/ \E q \in Queries, tp \in Topics, st \in SectionTypes :
          get_cached_results(q, tp, st)
    \/ clear_expired_entries
    \/ clear_cache
    \/ Restart

SpecCache == InitCache /\ [][NextCache]_vars

\* The eviction of a store into a cache that is full: the cache holds n
\* entries stored and hit earlier in the last two seconds, all with the
\* same hit_count and timestamp but two of them, the i-th under a query of
\* two letters of its own.
Letters == <<"c", "d", "e", "f", "g">>
Stored(i, v) ==
    LET query == <<Letters[((i - 1) \div Len(Letters)) + 1],
                   Letters[((i - 1) % Len(Letters)) + 1]>>
    IN [key |-> CacheKeyOf(query, <<>>), query |-> query, results |-> <<1>>,
        timestamp |-> v[2], topic |-> <<>>, section_type |-> "intro",
        hit_count |-> v[1]]
EvictValues ==
    {<<0, StartTime - 1>>, <<1, StartTime - 2>>, <<1, StartTime - 1>>,
     <<1, StartTime>>, <<2, StartTime - 1>>}
EvictCaches(n) ==
    {[i \in 1..n |-> Stored(i, IF i = pq[1] THEN vw[1]
                               ELSE IF i = pq[2] THEN vw[2]
                               ELSE <<1, StartTime - 1>>)] :
        pq \in {1, 2, n} \X {1, 2, n},
        vw \in EvictValues \X EvictValues}

InitEvict ==
    /\ now = StartTime
    /\ anthropic_delay = 0 /\ tavily_delay = 0
    /\ last_anthropic_call = 0 /\ last_tavily_call = 0
    /\ max_retries = 0 /\ base_delay = 1 /\ max_delay = 1
    /\ rate_limiting_enabled = TRUE /\ retry_enabled = TRUE
    /\ plan = [i \in 1..PlanLen |-> "ok"]
    /\ global_rate_limiter = None
    /\ task = [t \in Tasks |-> IdleTask]
    /\ last_release = [a \in Apis |-> NoSleep]
    /\ started = 0
    /\ flow = [t \in Tasks |-> IdleFlow]
    /\ js = NoJs
    /\ tok = NoTok
    /\ ttl_hours = 1
    /\ similarity_threshold = <<75, 100>>
    /\ enable_file_cache = FALSE
    /\ memo = Memo
    /\ disk = {}
    /\ queried = 0
    /\ last_op = [op |-> "init"]
    /\ \E n \in {MaxCacheSize, DecileSize} :
          /\ memory_cache \in EvictCaches(n)
          /\ max_cache_size \in {1, n}
          /\ stats = [CacheStats EXCEPT !.cache_size = n]

NextEvict ==
    \E q \in Queries, r \in {<<>>, <<1>>}, tp \in Topics, st \in SectionTypes :
        cache_results(q, r, tp, st)

SpecEvict == InitEvict /\ [][NextEvict]_vars

\* The search flow: coroutines in _search_web share the cache and the API
\* call manager.
InitSearch ==
    /\ now = StartTime
    /\ anthropic_delay = 0
    /\ rate_limiting_enabled \in BOOLEAN
    /\ tavily_delay \in (IF rate_limiting_enabled THEN 0..1 ELSE {0})
    /\ last_anthropic_call = 0 /\ last_tavily_call = 0
    /\ retry_enabled \in BOOLEAN
    /\ max_retries = 1
    /\ base_delay = 1
    /\ max_delay = MaxMaxDelay
    /\ plan \in SearchPlans
    /\ global_rate_limiter = None
    /\ task = [t \in Tasks |-> IdleTask]
    /\ last_release = [a \in Apis |-> NoSleep]
    /\ started = 0
    /\ flow = [t \in Tasks |-> IdleFlow]
    /\ js = NoJs
    /\ tok = NoTok
    /\ SearchCacheInit
    /\ max_cache_size = 1
    /\ ~enable_file_cache

\* Some coroutine is suspended in asyncio.sleep: between the operations of
\* the flow only the time spent there matters.
SomeoneSleeps ==
    \E t \in Tasks : task[t].pc \in {"sleep", "backoff"} /\ now < task[t].wake

NextSearch ==
    \/ SomeoneSleeps /\ Tick
    \/ \E t \in Tasks, qs \in QueryLists : search_web(t, qs, <<>>)
    \/ \E t \in Tasks : SearchLookup(t)
    \/ \E t \in Tasks : WaitForWake(t)
    \/ \E t \in Tasks : BackoffWake(t)
    \/ \E t \in Tasks, resp \in Responses : SearchResume(t, resp)

SpecSearch == InitSearch /\ [][NextSearch]_vars

\* The token budget optimizer, called once on each prompt and source list.
InitTok ==
    /\ now = StartTime
    /\ anthropic_delay = 0 /\ tavily_delay = 0
    /\ last_anthropic_call = 0 /\ last_tavily_call = 0
    /\ max_retries = 0 /\ base_delay = 1 /\ max_delay = 1
    /\ rate_limiting_enabled = TRUE /\ retry_enabled = TRUE
    /\ plan = [i \in 1..PlanLen |-> "ok"]
    /\ global_rate_limiter = None
    /\ task = [t \in Tasks |-> IdleTask]
    /\ last_release = [a \in Apis |-> NoSleep]
    /\ started = 0
    /\ flow = [t \in Tasks |-> IdleFlow]
    /\ js = NoJs
    /\ NoCache
    /\ TokenManagerInit

NextTok == optimize_sources_for_context

SpecTok == InitTok /\ [][NextTok]_vars

\* The JSON parser: one call on one text.
InitJson ==
    /\ now = StartTime
    /\ anthropic_delay = 0 /\ tavily_delay = 0
    /\ last_anthropic_call = 0 /\ last_tavily_call = 0
    /\ max_retries = 0 /\ base_delay = 1 /\ max_delay = 1
    /\ rate_limiting_enabled = TRUE /\ retry_enabled = TRUE
    /\ plan = [i \in 1..PlanLen |-> "ok"]
    /\ global_rate_limiter = None
    /\ task = [t \in Tasks |-> IdleTask]
    /\ last_release = [a \in Apis |-> NoSleep]
    /\ started = 0
    /\ flow = [t \in Tasks |-> IdleFlow]
    /\ tok = NoTok
    /\ NoCache
    /\ ParserInit

NextJson ==
    \/ extract_json_from_text
    \/ parse_report_plan
    \/ parse_search_queries

SpecJson == InitJson /\ [][NextJson]_vars

\* The global call manager of rate_limiter.py: get_rate_limiter and
\* reset_rate_limiter called in any order with any configuration.
\* A configuration is None or a dict that gives some of the settings.
Settings(k, values) == {<<>>} \cup {<<<<k, x>>>> : x \in values}
Configs ==
    {None} \cup
    {JObj(a \o t \o r) :
        a \in Settings("anthropic_rate_limit_delay", {<<3, 2>>}),
        t \in Settings("tavily_rate_limit_delay", {<<4, 5>>}),
        r \in Settings("max_retries", {0, 4})}
DefaultMaxRetries == 3
\* config.get(k, default)
Get(config, k, default) ==
    IF HasKey(config, k) THEN GetItem(config, k) ELSE default

\* APICallManager(config): the settings of the manager made; delays are
\* fractions of a second.
APICallManager(config) ==
    LET c == IF Truthy(config) THEN config ELSE JObj(<<>>)
    IN [t |-> "APICallManager",
        v |-> [anthropic_delay |-> Get(c, "anthropic_rate_limit_delay", <<1, 1>>),
               tavily_delay |-> Get(c, "tavily_rate_limit_delay", <<1, 2>>),
               max_retries |-> Get(c, "max_retries", DefaultMaxRetries),
               base_delay |-> Get(c, "retry_base_delay", <<1, 1>>),
               max_delay |-> Get(c, "retry_max_delay", <<60, 1>>),
               rate_limiting_enabled |-> Get(c, "enable_rate_limiting", TRUE),
               retry_enabled |-> Get(c, "enable_retries", TRUE)]]

\* if _global_rate_limiter is None
IsNone(manager) == manager = None

\* get_rate_limiter(config)
get_rate_limiter(config) ==
    /\ started < MaxFactoryCalls
    /\ started' = started + 1
    /\ global_rate_limiter' = IF IsNone(global_rate_limiter)
                              THEN APICallManager(config)
                              ELSE global_rate_limiter
    /\ last_op' = [op |-> "get_rate_limiter", config |-> config,
                   returned |-> global_rate_limiter']
    /\ UNCHANGED <<now, rlVars, max_retries, base_delay, max_delay,
                   rate_limiting_enabled, retry_enabled, plan, flow, tok, js,
                   task, last_release, cacheCfg, memory_cache, disk, stats,
                   queried>>

\* reset_rate_limiter()
reset_rate_limiter ==
    /\ started < MaxFactoryCalls
    /\ started' = started + 1
    /\ global_rate_limiter' = None
    /\ last_op' = [op |-> "reset_rate_limiter"]
    /\ UNCHANGED <<now, rlVars, max_retries, base_delay, max_delay,
                   rate_limiting_enabled, retry_enabled, plan, flow, tok, js,
                   task, last_release, cacheCfg, memory_cache, disk, stats,
                   queried>>

InitFactory ==
    /\ now = StartTime
    /\ anthropic_delay = 0 /\ tavily_delay = 0
    /\ last_anthropic_call = 0 /\ last_tavily_call = 0
    /\ max_retries = 0 /\ base_delay = 1 /\ max_delay = 1
    /\ rate_limiting_enabled = TRUE /\ retry_enabled = TRUE
    /\ plan = [i \in 1..PlanLen |-> "ok"]
    /\ global_rate_limiter = None
    /\ task = [t \in Tasks |-> IdleTask]
    /\ last_release = [a \in Apis |-> NoSleep]
    /\ started = 0
    /\ flow = [t \in Tasks |-> IdleFlow]
    /\ js = NoJs
    /\ tok = NoTok
    /\ NoCache

NextFactory ==
    \/ \E config \in Configs : get_rate_limiter(config)
    \/ reset_rate_limiter

SpecFactory == InitFactory /\ [][NextFactory]_vars

\* ------------------------------------------------ claims: rate limiter
Other(a) == IF a = "anthropic" THEN "tavily" ELSE "anthropic"
\* The identity's timestamp after the step.
LastCallNext(a) == IF a = "anthropic" THEN last_anthropic_call' ELSE last_tavily_call'

\* Coroutine t enters wait_for_<a> in this step / returns from it.
EntersWait(t) == task[t].pc = "idle" /\ task'[t].pc \in {"sleep", "released"}
WakesUp(t) == task[t].pc = "sleep" /\ task'[t].pc # "sleep"
ReturnsFromWait(t) ==
    \/ task[t].pc = "idle" /\ task'[t].pc = "released"
    \/ WakesUp(t)

\* C1: every two consecutive returns of wait_for_<a> on one identity are at
\* least the configured spacing apart, also when the callers overlap.
C1_SpacingOverCallStream ==
    [][\A t \in Tasks :
         ReturnsFromWait(t) /\ last_release[task'[t].api] # NoSleep
            => now - last_release[task'[t].api] >= Delay(task'[t].api)]_vars

\* C2: a call that overlaps no other call on its identity sleeps for
\* exactly the spacing minus the elapsed time when the elapsed time is
\* below the spacing and does not sleep otherwise, returns no earlier than
\* the spacing after the previous call's timestamp, and stores the time of
\* its return as the last call time.
C2_SequentialSpacing ==
    [][\A t \in Tasks :
         LET a == task'[t].api
             elapsed == now - LastCall(a)
         IN /\ (EntersWait(t) /\ ~task'[t].overlap) =>
                  /\ elapsed < Delay(a) =>
                       /\ task'[t].pc = "sleep"
                       /\ task'[t].wait_time = Delay(a) - elapsed
                       /\ LastCallNext(a) = LastCall(a)
                  /\ elapsed >= Delay(a) =>
                       /\ task'[t].pc = "released"
                       /\ task'[t].wait_time = NoSleep
                       /\ LastCallNext(a) = now
            /\ (WakesUp(t) /\ ~task[t].overlap) =>
                  /\ now >= LastCall(a) + Delay(a)
                  /\ now >= task[t].current_time + task[t].wait_time
                  /\ LastCallNext(a) = now]_vars

\* A call that overlapped no other call has slept and returned.
C2_Witness ==
    \E t \in Tasks : /\ task[t].pc = "released"
                     /\ task[t].wait_time > 0
                     /\ ~task[t].overlap
                     /\ now > task[t].current_time + task[t].wait_time

\* C3: a wait_for_<a> call leaves the other identity's timestamp alone and
\* sleeps by its own identity's timestamp and spacing only; a first call on
\* an identity is not delayed by calls made on the other one.
C3_IdentitiesIndependent ==
    [][\A t \in Tasks :
         LET a == task'[t].api
         IN /\ EntersWait(t) =>
                  /\ LastCallNext(Other(a)) = LastCall(Other(a))
                  /\ task'[t].pc = "sleep" <=> now - LastCall(a) < Delay(a)
                  /\ task'[t].pc = "sleep" =>
                        task'[t].wait_time = Delay(a) - (now - LastCall(a))
                  /\ LastCall(a) = 0 => task'[t].pc = "released"
            /\ WakesUp(t) => LastCallNext(Other(a)) = LastCall(Other(a))]_vars

\* A first call on one identity has returned without sleeping although a
\* call on the other identity was made less than the spacing before.
C3_Witness ==
    \E t \in Tasks : /\ task[t].pc = "released"
                     /\ task[t].seenLast = 0
                     /\ task[t].wait_time = NoSleep
                     /\ LastCall(Other(task[t].api)) # 0
                     /\ now - LastCall(Other(task[t].api)) < Delay(task[t].api)

\* C4: with a spacing of 0 no call on that identity reaches asyncio.sleep.
C4_ZeroSpacingNeverSleeps ==
    \A t \in Tasks :
        (task[t].api \in Apis /\ Delay(task[t].api) = 0)
            => task[t].pc # "sleep" /\ task[t].wait_time = NoSleep

\* With spacing 0, a call made at the very instant of the previous call on
\* that identity has returned.
C4_Witness ==
    \E t \in Tasks : /\ task[t].pc = "released"
                     /\ Delay(task[t].api) = 0
                     /\ task[t].seenLast = task[t].current_time

\* --------------------------------------------- claims: retry controller
\* The number of times the operation's body fails before it succeeds.
FailsFirst == Cardinality({i \in 1..PlanLen : plan[i] = "fail"})
Finished(t) == task[t].pc \in {"returned", "raised"}
\* The controller's invocation of func runs the operation's body.
RunsBody(t) == task[t].kind \in {"async", "sync"}
UnderRetry(t) ==
    \/ task[t].entry = "retry"
    \/ task[t].entry = "manager" /\ retry_enabled /\ task[t].calls > 0

\* C5: an operation that fails k <= max_retries times and then succeeds is
\* invoked exactly k + 1 times and its success value is returned; with
\* k = 0 there is one invocation and no backoff sleep.
C5_FailKThenSucceed ==
    \A t \in Tasks :
        (UnderRetry(t) /\ RunsBody(t) /\ FailsFirst <= max_retries) =>
            /\ task[t].calls <= FailsFirst + 1
            /\ task[t].pc # "raised"
            /\ task[t].pc = "returned" =>
                  /\ task[t].calls = FailsFirst + 1
                  /\ task[t].result = [type |-> "value", id |-> FailsFirst + 1]
                  /\ FailsFirst = 0 => task[t].sleeps = <<>>

\* A call has returned the success value after max_retries >= 1 failures.
C5_Witness ==
    \E t \in Tasks : /\ task[t].pc = "returned"
                     /\ RunsBody(t)
                     /\ FailsFirst = max_retries
                     /\ task[t].calls >= 2

\* C6: an operation that fails every time is invoked exactly
\* max_retries + 1 times and the exception of the last invocation, no other
\* and no value, reaches the caller.
C6_ExhaustedRaisesLast ==
    \A t \in Tasks :
        (UnderRetry(t) /\ RunsBody(t) /\ FailsFirst > max_retries) =>
            /\ task[t].calls <= max_retries + 1
            /\ task[t].pc # "returned"
            /\ task[t].pc = "raised" =>
                  /\ task[t].calls = max_retries + 1
                  /\ task[t].result = [type |-> "exc", id |-> max_retries + 1]

\* A call has raised after more than one invocation.
C6_Witness ==
    \E t \in Tasks : /\ task[t].pc = "raised"
                     /\ RunsBody(t)
                     /\ task[t].calls = max_retries + 1
                     /\ task[t].calls >= 2

\* C7: the sleep after the i-th failed attempt (from 0) lasts
\* min(base_delay * 2^i, max_delay); one sleep separates two consecutive
\* attempts, none exceeds max_delay, none follows a success or the last
\* failed attempt.
C7_BackoffDelays ==
    \A t \in Tasks :
        UnderRetry(t) =>
            /\ \A i \in 1..Len(task[t].sleeps) :
                  /\ task[t].sleeps[i] = Min(base_delay * (2 ^ (i - 1)), max_delay)
                  /\ task[t].sleeps[i] <= max_delay
            /\ task[t].pc = "backoff" =>
                  /\ Len(task[t].sleeps) = task[t].calls
                  /\ task[t].calls <= max_retries
            /\ Finished(t) => Len(task[t].sleeps) = task[t].calls - 1

\* A call has ended after two sleeps, the second one cut to max_delay.
C7_Witness ==
    \E t \in Tasks : /\ Finished(t)
                     /\ Len(task[t].sleeps) >= 2
                     /\ base_delay * 2 > max_delay
                     /\ task[t].sleeps[2] = max_delay

\* C8: on the same outcomes a synchronous and an asynchronous operation
\* end the same way: as many invocations, the same backoff sleeps and the
\* same value returned or exception raised.
C8_SyncAsyncSame ==
    \A t1, t2 \in Tasks :
        (/\ task[t1].entry = "retry" /\ task[t2].entry = "retry"
         /\ task[t1].kind = "sync" /\ task[t2].kind = "async"
         /\ Finished(t1) /\ Finished(t2)) =>
            /\ task[t1].pc = task[t2].pc
            /\ task[t1].calls = task[t2].calls
            /\ task[t1].sleeps = task[t2].sleeps
            /\ task[t1].result = task[t2].result

\* A synchronous and an asynchronous operation have both ended after a
\* retry.
C8_Witness ==
    \E t1, t2 \in Tasks :
        /\ task[t1].kind = "sync" /\ task[t2].kind = "async"
        /\ Finished(t1) /\ Finished(t2)
        /\ task[t1].calls >= 2 /\ task[t2].calls >= 2

\* ------------------------------------------------- claims: call manager
\* C9: a call_<a>_api call that completes without raising returns the
\* value the wrapped operation produced, also for a plain callable that
\* wraps an asynchronous function; a failure inside it is retried.
C9_ReturnsOperationValue ==
    \A t \in Tasks :
        (task[t].entry = "manager" /\ task[t].pc = "returned") =>
            /\ task[t].result.type = "value"
            /\ task[t].result.id = task[t].bodyRuns
            /\ plan[task[t].result.id] = "ok"

\* ------------------------------------------------ claims: search cache
\* C10: a get_cached_results(q, t) that directly follows the
\* cache_results(q, r, t) of a result list r (an empty list is not stored)
\* is an exact hit: it returns r by the exact key, and cache_hits and the
\* entry's hit_count grow by one, whatever the cache held before and
\* whatever max_cache_size is.
C10_StoreThenLookupExactHit ==
    [][(/\ last_op.op = "store"
        /\ last_op.results # <<>>
        /\ last_op'.op = "lookup"
        /\ last_op'.query = last_op.query
        /\ last_op'.topic = last_op.topic) =>
           /\ last_op'.path = "exact"
           /\ last_op'.results = last_op.results
           /\ stats'.cache_hits = stats.cache_hits + 1
           /\ \E i \in 1..Len(memory_cache') :
                 /\ memory_cache'[i].key = GenerateCacheKey(last_op.query, last_op.topic)
                 /\ memory_cache'[i].hit_count = 1]_vars

\* ------------------------------------------------ claims: search cache
\* The step is a call of get_cached_results / of the operation named.
LookupStep == queried' = queried + 1 /\ last_op'.op = "lookup"
CacheOpStep(name) ==
    (queried' = queried + 1 \/ started' = started + 1) /\ last_op'.op = name
\* The score _find_similar_cached_query gives a stored entry for the lookup.
ScoreBelowThreshold(query, topic, entry) ==
    RatLess(EntrySimilarity(query, topic, entry), similarity_threshold)
Age(entry) == now - entry.timestamp

\* C11: a lookup whose similarity score to every stored entry is below the
\* threshold returns nothing, adds one to cache_misses and changes no
\* entry's hit_count.
C11_BelowThresholdIsMiss ==
    [][(/\ LookupStep
        /\ \A i \in 1..Len(memory_cache) :
              ScoreBelowThreshold(last_op'.query, last_op'.topic, memory_cache[i]))
          => /\ ~last_op'.found
             /\ stats'.cache_misses = stats.cache_misses + 1
             /\ \A i \in 1..Len(memory_cache), j \in 1..Len(memory_cache') :
                   memory_cache[i].key = memory_cache'[j].key
                      => memory_cache[i].hit_count = memory_cache'[j].hit_count]_vars

\* C12: the entry a lookup returns, by its key or by similarity, is never
\* older than ttl_hours * 3600 seconds, and a stored entry with the key of
\* the lookup whose age is exactly the TTL is returned as an exact hit.
C12_ExpiredNeverServed ==
    [][LookupStep =>
         /\ last_op'.found => Age(last_op'.entry) <= ttl_hours * SecondsPerHour
         /\ \A i \in 1..Len(memory_cache) :
               (/\ memory_cache[i].key =
                      GenerateCacheKey(last_op'.query, last_op'.topic)
                /\ Age(memory_cache[i]) = ttl_hours * SecondsPerHour)
                  => /\ last_op'.path = "exact"
                     /\ last_op'.entry = memory_cache[i]]_vars

\* An entry exactly as old as the TTL has been served as an exact hit.
C12_Witness ==
    /\ last_op.op = "lookup"
    /\ last_op.path = "exact"
    /\ Age(last_op.entry) = ttl_hours * SecondsPerHour

\* C13: total_queries, cache_hits and cache_misses never decrease in a
\* lookup, a store (with its eviction) or clear_expired_entries, and
\* clear_cache leaves them and cache_size at 0.
C13_CountersMonotone ==
    [][/\ (CacheOpStep("lookup") \/ CacheOpStep("store")
              \/ CacheOpStep("clear_expired"))
          => /\ stats'.total_queries >= stats.total_queries
             /\ stats'.cache_hits >= stats.cache_hits
             /\ stats'.cache_misses >= stats.cache_misses
       /\ CacheOpStep("clear")
          => /\ stats'.total_queries = 0
             /\ stats'.cache_hits = 0
             /\ stats'.cache_misses = 0
             /\ stats'.cache_size = 0]_vars

\* clear_cache has run on a cache that had stored and served entries.
C13_Witness ==
    /\ last_op.op = "clear"
    /\ started > 0
    /\ queried > 1
    /\ stats = CacheStats

\* C14: memory never holds more than max_cache_size entries, after
\* construction over a cache directory and after every cache_results.
C14_MemoryWithinMaxSize == Len(memory_cache) <= max_cache_size

\* C15: a cache constructed with persistence over a cache directory holds
\* exactly the files' entries that are not expired, each once and under
\* its key, and has deleted the expired files; a lookup that follows, of
\* the query and topic of a file still within its TTL, is an exact hit on
\* that entry.
C15_LoadKeepsUnexpired ==
    [][/\ (CacheOpStep("restart") /\ enable_file_cache)
          => LET fresh == {f \in disk : Age(f) <= ttl_hours * SecondsPerHour}
             IN /\ {memory_cache'[i] : i \in 1..Len(memory_cache')} = fresh
                /\ Len(memory_cache') = Cardinality(fresh)
                /\ disk' = fresh
       /\ (LookupStep /\ last_op.op = "restart")
          => \A f \in disk :
                (/\ f.key = GenerateCacheKey(last_op'.query, last_op'.topic)
                 /\ Age(f) <= ttl_hours * SecondsPerHour)
                   => /\ last_op'.path = "exact"
                      /\ last_op'.entry = f]_vars

\* An entry stored before the restart has been served by its key right
\* after it.
C15_Witness ==
    /\ last_op.op = "lookup"
    /\ last_op.after = "restart"
    /\ last_op.path = "exact"
    /\ last_op.entry \in disk

\* ------------------------------------------------- claims: search flow
\* The lookups the coroutines 1..n have completed in _search_web.
RECURSIVE LookupsDone(_)
LookupsDone(n) ==
    IF n = 0 THEN 0
    ELSE flow[n].cache_hits + flow[n].cache_misses + LookupsDone(n - 1)
\* What memory holds, apart from the hit counts.
CacheContent(cache) ==
    {<<cache[i].key, cache[i].timestamp, cache[i].results>> : i \in 1..Len(cache)}

\* C16: with several coroutines in _search_web on one cache, after N
\* completed lookups total_queries is N and cache_hits + cache_misses is
\* N, and between two operations memory is never left above
\* max_cache_size nor cache_size out of step with it.
C16_CountersSerialized ==
    /\ stats.total_queries = LookupsDone(NumTasks)
    /\ stats.total_queries = queried
    /\ stats.cache_hits + stats.cache_misses = queried
    /\ Len(memory_cache) <= max_cache_size
    /\ stats.cache_size = Len(memory_cache)

\* Two coroutines are suspended in their searches at once, after lookups
\* and a store with its eviction.
C16_Witness ==
    \E t, u \in Tasks :
        /\ t # u
        /\ flow[t].phase = "await" /\ flow[u].phase = "await"
        /\ flow[t].stores + flow[u].stores >= 2
        /\ queried >= 4

\* C17: in _search_web a call_tavily_api starts only in the step that
\* looked the query up and missed, behind the rate limiter and under the
\* retry controller, once for each miss; a hit starts none and goes on to
\* the next query; the cache is written only when the call has returned a
\* value; a call that has raised after its retries writes nothing and the
\* flow goes on to the next query.
C17_LookupBeforeSearch ==
    [][/\ \A t \in Tasks :
            LET f == flow[t]
            IN /\ (task[t].pc = "idle" /\ task'[t].pc # "idle")
                     => /\ f.phase = "lookup"
                        /\ stats'.cache_misses = stats.cache_misses + 1
                        /\ ~last_op'.found
                        /\ last_op'.query = f.queries[f.i]
                        /\ task'[t].entry = "manager" /\ task'[t].api = "tavily"
                        /\ rate_limiting_enabled
                              => task'[t].pc = "sleep" \/ last_tavily_call' = now
                        /\ task'[t].pc = "sleep" => task'[t].bodyRuns = 0
                        /\ (retry_enabled /\ task'[t].pc = "raised")
                              => task'[t].calls = max_retries + 1
               /\ (f.phase = "lookup" /\ flow'[t].cache_hits = f.cache_hits + 1)
                     => /\ last_op'.found
                        /\ stats'.cache_hits = stats.cache_hits + 1
                        /\ task'[t] = IdleTask
                        /\ last_tavily_call' = last_tavily_call
                        /\ flow'[t].i = f.i + 1
               /\ (task[t].pc = "idle" /\ task'[t].pc # "idle")
                     <=> flow'[t].cache_misses = f.cache_misses + 1
               /\ flow'[t].phase = "done"
                     => flow'[t].cache_hits + flow'[t].cache_misses
                           = Len(flow'[t].queries)
               /\ flow'[t].stores = f.stores + 1
                     => /\ task[t].pc = "returned"
                        /\ task[t].result.type = "value"
                        /\ task[t].bodyRuns >= 1
                        /\ last_op'.query = f.queries[f.i]
               /\ (f.phase = "await" /\ task[t].pc = "raised" /\ flow'[t] # f)
                     => /\ memory_cache' = memory_cache
                        /\ disk' = disk
                        /\ retry_enabled => task[t].calls = max_retries + 1
                        /\ flow'[t].i = f.i + 1
                        /\ flow'[t].phase =
                              (IF f.i < Len(f.queries) THEN "lookup" ELSE "done")
       /\ ~(CacheContent(memory_cache') \subseteq CacheContent(memory_cache))
             => \E w \in Tasks : flow'[w].stores = flow[w].stores + 1]_vars

\* One _search_web has ended after a search that failed through its
\* retries, a search that succeeded and was stored, and a hit.
C17_Witness ==
    \E t \in Tasks :
        /\ flow[t].phase = "done"
        /\ retry_enabled
        /\ flow[t].failed >= 1
        /\ \E u \in Tasks : flow[u].stores >= 1 /\ flow[u].cache_hits >= 1

\* ------------------------------------------------ claims: token budget
\* The call has been made; what was left for the sources.
Remaining == tok.context_limit - ResponseBuffer - tok.usage.prompt_tokens
HasContent(search_results) ==
    \E i \in 1..Len(search_results) : search_results[i].content # <<>>

\* C18: the estimated tokens of the selected sources as formatted, plus
\* the estimated prompt tokens, exceed context_limit by no more than the
\* rounding of the estimates (one token for each), and when the prompt
\* alone exhausts the budget no source is selected.
C18_WithinContextLimit ==
    tok.called =>
        IF Remaining <= 0
        THEN tok.optimized_sources = <<>>
        ELSE tok.usage.total_tokens
                <= tok.context_limit + Len(tok.optimized_sources) + 1

\* C19: when the estimated prompt tokens are at least context_limit minus
\* the response buffer, the call returns no sources and a usage record
\* with sources_tokens 0, total_tokens = prompt_tokens and
\* usage_percentage 100, whatever the sources are.
C19_NoRoomReturnsEmpty ==
    (tok.called /\ tok.usage.prompt_tokens >= tok.context_limit - ResponseBuffer)
        => /\ tok.optimized_sources = <<>>
           /\ tok.usage.prompt_tokens = EstimateTokens(tok.prompt_length)
           /\ tok.usage.sources_tokens = 0
           /\ tok.usage.total_tokens = tok.usage.prompt_tokens
           /\ tok.usage.context_limit = tok.context_limit
           /\ tok.usage.usage_percentage[1] = 100 * tok.usage.usage_percentage[2]

\* A prompt that fills the budget exactly was given with sources that
\* have content, and none was returned.
C19_Witness ==
    /\ tok.called
    /\ Remaining = 0
    /\ HasContent(tok.search_results)
    /\ tok.optimized_sources = <<>>

SourcesBudget ==
    Min(Remaining, ((tok.context_limit - ResponseBuffer) * 6) \div 10)
NumGiven == Len(tok.search_results)
RECURSIVE WithContent(_, _)
WithContent(search_results, k) ==
    IF k = 0 THEN 0
    ELSE WithContent(search_results, k - 1)
            + (IF search_results[k].content # <<>> THEN 1 ELSE 0)
\* The character limit that goes with a per-source share.
CharLimitOf(share) ==
    IF (7 * share) \div 2 >= MaxSourceContent THEN MaxSourceContent
    ELSE IF (7 * share) \div 2 <= MinSourceContent THEN MinSourceContent
    ELSE (7 * share) \div 2

\* C21: when the even split of the sources budget over the n sources
\* given is below 50 tokens, the sources returned are those with content
\* among the first min(3, n), at most 3, each cut to the limit of the
\* share recomputed over min(3, n); when the split is 50 or more, they are
\* those with content among all n, each cut to the limit of the even share.
C21_ThinBudgetNarrowsToThree ==
    (tok.called /\ Remaining > 0 /\ NumGiven > 0) =>
        LET even == SourcesBudget \div NumGiven
            k == IF even < 50 THEN (IF NumGiven < 3 THEN NumGiven ELSE 3)
                              ELSE NumGiven
            char_limit == CharLimitOf(SourcesBudget \div k)
        IN /\ Len(tok.optimized_sources) = WithContent(tok.search_results, k)
           /\ even < 50 => Len(tok.optimized_sources) <= 3
           /\ \A j \in 1..Len(tok.optimized_sources) :
                 /\ tok.optimized_sources[j].content <= char_limit
                 /\ tok.optimized_sources[j].content > 0
                 /\ \E i \in j..k :
                      /\ WithContent(tok.search_results, i) = j
                      /\ tok.search_results[i].content # <<>>
                      /\ ContentLength(tok.search_results[i].content)
                             <= char_limit
                            => tok.optimized_sources[j].content
                                 = ContentLength(tok.search_results[i].content)

\* Five long sources were given with a budget of 28 tokens each, and the
\* first three came back.
C21_Witness ==
    /\ tok.called
    /\ NumGiven = ScenarioSources
    /\ SourcesBudget = ScenarioBudget
    /\ \A i \in 1..NumGiven : ContentLength(tok.search_results[i].content) > 1000
    /\ Len(tok.optimized_sources) = 3

\* ------------------------------------------------- claims: JSON parser
\* The JSON value written in the text of the call.
TopLevel == Loads(js.payload).val
Made(op) == js.called /\ js.op = op
\* The array parse_search_queries is to take from a top-level value.
QueriesOf(top) ==
    IF top.t = "list" THEN top
    ELSE IF top.t = "dict" /\ GetItem(top, "queries").t = "list"
    THEN GetItem(top, "queries")
    ELSE IF top.t = "dict" /\ GetItem(top, "search_queries").t = "list"
    THEN GetItem(top, "search_queries")
    ELSE IF top.t = "dict" /\ GetItem(top, "items").t = "list"
    THEN GetItem(top, "items")
    ELSE None
StringList(data) ==
    /\ data.t = "list"
    /\ data.v # <<>>
    /\ \A n \in 1..Len(data.v) : data.v[n].t = "str"

\* C22: extract_json_from_text, parse_report_plan and parse_search_queries
\* return a value or None on every text and every expected shape; none of
\* them raises.
C22_NeverRaises == js.called => js.out.st = "returned"

\* C23: a well-formed JSON value in a code fence, with any tag or none and
\* with or without prose around the fence, is returned by
\* extract_json_from_text as it was written.
C23_FencedValueRecovered ==
    (Made("extract_json_from_text") /\ js.kind = "well-formed"
        /\ js.layout.style = "fenced")
        => js.out = Returned(TopLevel)

\* C24: on a text whose JSON is malformed or cut off,
\* extract_json_from_text returns None for every expected shape, never a
\* fragment of the text.
C24_MalformedFailsClosed ==
    (Made("extract_json_from_text") /\ js.kind = "malformed")
        => js.out = Returned(None)

\* C25: what parse_search_queries returns is None or a non-empty list of
\* strings; on a well-formed text it is the top-level array, or the array
\* under the first of queries, search_queries, items that holds one, and
\* None when there is no such array, when it is empty or when an element
\* is not a string.
C25_QueriesFromKnownKeys ==
    Made("parse_search_queries") =>
        /\ js.out.st = "returned"
        /\ js.out.val # None => StringList(js.out.val)
        /\ js.kind = "well-formed" =>
              /\ js.out.val # None => js.out.val = QueriesOf(TopLevel)
              /\ ~StringList(QueriesOf(TopLevel)) => js.out.val = None

\* C26: what parse_report_plan returns is None or an object with a string
\* under title and an array under sections; on a well-formed text it is
\* the whole top-level object, extra fields included, and None when title
\* or sections is missing, title is no string or sections is no array.
C26_PlanHasTitleAndSections ==
    Made("parse_report_plan") =>
        /\ js.out.st = "returned"
        /\ js.out.val # None =>
              /\ js.out.val.t = "dict"
              /\ GetItem(js.out.val, "title").t = "str"
              /\ GetItem(js.out.val, "sections").t = "list"
        /\ js.kind = "well-formed" =>
              /\ js.out.val # None => js.out.val = TopLevel
              /\ ~(/\ TopLevel.t = "dict"
                   /\ GetItem(TopLevel, "title").t = "str"
                   /\ GetItem(TopLevel, "sections").t = "list")
                    => js.out.val = None

\* ------------------------------------------------ claims: call manager
\* Coroutine t invokes the wrapped operation in this step, through
\* call_<a>_api.
Invokes(t) ==
    /\ task'[t].entry = "manager"
    /\ task'[t].calls = task[t].calls + 1
\* When coroutine u, now in the sleep of the retry loop, last invoked its
\* operation.
LastInvoked(u) == task[u].wake - task[u].sleeps[Len(task[u].sleeps)]

\* C27: with rate limiting and retries enabled, an invocation of a wrapped
\* operation through call_<a>_api, first attempt or retry, comes at least
\* the identity's delay after the last invocation of every call on that
\* identity that is waiting to retry, its own call included.
C27_InvocationsSpaced ==
    [][\A t, u \in Tasks :
         (/\ rate_limiting_enabled
          /\ retry_enabled
          /\ Invokes(t)
          /\ task[u].pc = "backoff"
          /\ task[u].entry = "manager"
          /\ task[u].api = task'[t].api)
            => now - LastInvoked(u) >= Delay(task'[t].api)]_vars

\* ------------------------------------- claims: search cache statistics
\* C28: total_queries = cache_hits + cache_misses in every state; a lookup
\* adds one to total_queries and one to exactly one of cache_hits (when it
\* returns results) and cache_misses (when it returns none); every other
\* step leaves the three as they are or sets all three to 0.
C28_TotalIsHitsPlusMisses ==
    /\ [](stats.total_queries = stats.cache_hits + stats.cache_misses)
    /\ [][/\ LookupStep
             => /\ stats'.total_queries = stats.total_queries + 1
                /\ IF last_op'.found
                   THEN /\ stats'.cache_hits = stats.cache_hits + 1
                        /\ stats'.cache_misses = stats.cache_misses
                   ELSE /\ stats'.cache_hits = stats.cache_hits
                        /\ stats'.cache_misses = stats.cache_misses + 1
          /\ ~LookupStep
             => \/ /\ stats'.total_queries = stats.total_queries
                   /\ stats'.cache_hits = stats.cache_hits
                   /\ stats'.cache_misses = stats.cache_misses
                \/ /\ stats'.total_queries = 0
                   /\ stats'.cache_hits = 0
                   /\ stats'.cache_misses = 0]_vars

\* A lookup has missed after removing the expired entry of its key (the
\* size reported is the one before the removal), and an earlier lookup
\* has hit.
C28_Witness ==
    /\ last_op.op = "lookup"
    /\ last_op.path = "miss"
    /\ stats.cache_size > Len(memory_cache)
    /\ stats.cache_hits >= 1
    /\ stats.cache_misses >= 1

\* C29: after every cache operation, construction included, the
\* cache_size reported is the number of entries held in memory.
C29_SizeMatchesMemory == stats.cache_size = Len(memory_cache)

\* C30: with persistence enabled the keys of the files of cache_dir are
\* the keys held in memory after every cache operation: what eviction or a
\* lookup that found it expired has removed from memory has no file left.
C30_DiskMatchesMemory ==
    enable_file_cache =>
        {f.key : f \in disk}
            = {memory_cache[i].key : i \in 1..Len(memory_cache)}

\* ------------------------------------- claims: termination of the retry loop
\* C31: retry_with_exponential_backoff invokes the operation at most
\* max_retries + 1 times; the attempt counter goes up by one on every
\* failure that is retried and nothing else changes it during the call;
\* when every invocation and every sleep completes, the call eventually
\* returns a result or raises.
C31_BoundedAndTerminates ==
    /\ [](\A t \in Tasks :
            task[t].entry = "retry" =>
                /\ task[t].calls <= max_retries + 1
                /\ task[t].calls = task[t].attempt + 1
                /\ task[t].attempt <= max_retries)
    /\ [][\A t \in Tasks :
            (task[t].pc = "backoff" /\ task'[t] # task[t]) =>
                /\ task'[t].attempt = task[t].attempt + 1
                /\ task'[t].calls = task[t].calls + 1]_vars
    /\ \A t \in Tasks : (task[t].pc = "backoff") ~> Finished(t)

\* A call has ended after max_retries = MaxRetriesCfg sleeps, the first of
\* the longest base delay and the last of the longest maximum delay.
C31_Witness ==
    \E t \in Tasks : /\ Finished(t)
                     /\ task[t].entry = "retry"
                     /\ max_retries = MaxRetriesCfg
                     /\ task[t].attempt = max_retries
                     /\ Len(task[t].sleeps) = max_retries
                     /\ task[t].sleeps[1] = MaxBaseDelay
                     /\ task[t].sleeps[max_retries] = MaxMaxDelay

\* ------------------------------------- claims: lookup paths of the cache
\* The entries of cache, without the one under key, that have not expired.
LiveOthers(cache, key) ==
    {i \in 1..Len(cache) : cache[i].key # key /\ ~IsExpired(cache[i])}
AtOrAboveThreshold(query, topic, entry) ==
    RatLeq(similarity_threshold, EntrySimilarity(query, topic, entry))

ExactKeyMiss(cache, query, topic) ==
    \A i \in 1..Len(cache) :
        cache[i].key = GenerateCacheKey(query, topic) => IsExpired(cache[i])
\* The entries the similarity search scores, by their place in the scan.
Scanned(cache) == {i \in 1..Len(cache) : ~IsExpired(cache[i])}
\* Entry i is the first of the scanned entries with the highest score.
FirstBest(cache, query, topic, i) ==
    /\ i \in Scanned(cache)
    /\ \A j \in Scanned(cache) :
          /\ RatLeq(EntrySimilarity(query, topic, cache[j]),
                    EntrySimilarity(query, topic, cache[i]))
          /\ j < i => RatLess(EntrySimilarity(query, topic, cache[j]),
                              EntrySimilarity(query, topic, cache[i]))

SameButHits(e, f) == [e EXCEPT !.hit_count = 0] = [f EXCEPT !.hit_count = 0]

\* C34: a lookup adds no entry and changes no stored entry's key, query,
\* topic, results or timestamp; a hit adds exactly one to the hit_count of
\* the entry it returns and leaves every other entry as it was; a similar
\* hit leaves no entry under the key of the lookup; the only entry a lookup
\* can remove is an expired one under the key of the lookup.
C34_LookupFrame ==
    [][LookupStep =>
         LET key == GenerateCacheKey(last_op'.query, last_op'.topic)
         IN /\ Len(memory_cache') <= Len(memory_cache)
            /\ \A j \in 1..Len(memory_cache') :
                  \E i \in 1..Len(memory_cache) :
                      /\ memory_cache[i].key = memory_cache'[j].key
                      /\ SameButHits(memory_cache[i], memory_cache'[j])
                      /\ memory_cache'[j].hit_count = memory_cache[i].hit_count +
                            (IF last_op'.found /\ last_op'.entry.key = memory_cache[i].key
                             THEN 1 ELSE 0)
            /\ \A i \in 1..Len(memory_cache) :
                  \/ \E j \in 1..Len(memory_cache') :
                        memory_cache'[j].key = memory_cache[i].key
                  \/ memory_cache[i].key = key /\ IsExpired(memory_cache[i])
            /\ last_op'.found =>
                  \E j \in 1..Len(memory_cache') :
                      /\ memory_cache'[j].key = last_op'.entry.key
                      /\ memory_cache'[j].hit_count = last_op'.entry.hit_count + 1
            /\ last_op'.path = "similar" =>
                  \A j \in 1..Len(memory_cache') : memory_cache'[j].key # key]_vars

\* A similarity hit has counted on one of two stored entries, under a key
\* that is not the key of the lookup.
C34_Witness ==
    /\ last_op.op = "lookup"
    /\ last_op.path = "similar"
    /\ ~last_op.expired
    /\ Len(memory_cache) = 2
    /\ \E j \in 1..2 :
          /\ memory_cache[j].key = last_op.entry.key
          /\ memory_cache[j].hit_count = last_op.entry.hit_count + 1
          /\ memory_cache[j].key # GenerateCacheKey(last_op.query, last_op.topic)

\* ------------------------------------------------- claims: eviction
\* The entries in memory when a store of (query, topic) has put its entry
\* and before it evicts: each by its key, its (hit_count, timestamp) and its
\* place in the insertion order.
AfterPut(cache, key) ==
    {[key |-> cache[i].key, hits |-> cache[i].hit_count,
      time |-> cache[i].timestamp, pos |-> i] :
        i \in {j \in 1..Len(cache) : cache[j].key # key}}
    \cup {[key |-> key, hits |-> 0, time |-> now,
           pos |-> IF KeyIndex(cache, key) # 0 THEN KeyIndex(cache, key)
                   ELSE Len(cache) + 1]}
\* e comes strictly before f in ascending (hit_count, timestamp) order.
LowerRank(e, f) ==
    \/ e.hits < f.hits
    \/ e.hits = f.hits /\ e.time < f.time
StoreStep == started' = started + 1 /\ last_op'.op = "store"

\* C35: when a store leaves n > max_cache_size entries in memory, the
\* eviction removes exactly max(1, n div 10) of them, the lowest in
\* ascending (hit_count, timestamp) order: no entry that stays is strictly
\* lower than one removed, and of entries with the same (hit_count,
\* timestamp) the ones inserted first are removed.
C35_EvictsLowestDecile ==
    [][(StoreStep /\ last_op'.results # <<>>) =>
         LET key == GenerateCacheKey(last_op'.query, last_op'.topic)
             put == AfterPut(memory_cache, key)
             n == Cardinality(put)
             stay == {e \in put : \E j \in 1..Len(memory_cache') :
                                      memory_cache'[j].key = e.key}
             gone == put \ stay
         IN /\ Len(memory_cache') = Cardinality(stay)
            /\ n <= max_cache_size => gone = {}
            /\ n > max_cache_size =>
                  /\ Cardinality(gone) =
                        (IF n \div 10 > 1 THEN n \div 10 ELSE 1)
                  /\ \A e \in stay, f \in gone :
                        /\ ~LowerRank(e, f)
                        /\ ~LowerRank(f, e) => f.pos < e.pos]_vars

\* A store has left more than two deciles of entries and the eviction has
\* removed two older ones, not the entry stored.
C35_Witness ==
    /\ last_op.op = "store"
    /\ last_op.results # <<>>
    /\ max_cache_size = DecileSize
    /\ (DecileSize + 1) \div Decile >= 2
    /\ Len(memory_cache) = DecileSize + 1 - ((DecileSize + 1) \div Decile)
    /\ KeyIndex(memory_cache, GenerateCacheKey(last_op.query, last_op.topic)) # 0

\* --------------------------------------- claims: selection of the sources
\* C36: when the prompt leaves room for sources (remaining > 0) and at least
\* one source given has content, the call selects at least one source; a
\* source without content is never selected.
C36_SelectsWhenRoom ==
    tok.called =>
        /\ (Remaining > 0 /\ HasContent(tok.search_results))
              => Len(tok.optimized_sources) >= 1
        /\ \A j \in 1..Len(tok.optimized_sources) :
              tok.optimized_sources[j].content > 0

\* ------------------------------------- claims: truncation of the content
\* The sources the loop of _optimize_source_content runs over, and twice the
\* character budget of each: the per-source share of tokens times 3.5,
\* clamped to [min_source_content, max_source_content].
NumKept ==
    IF SourcesBudget \div NumGiven < MinTokensPerSource
    THEN (IF NumGiven < MinSources THEN NumGiven ELSE MinSources)
    ELSE NumGiven
TwiceCharBudget ==
    LET twice == 7 * (SourcesBudget \div NumKept)
    IN IF twice > 2 * MaxSourceContent THEN 2 * MaxSourceContent
       ELSE IF twice < 2 * MinSourceContent THEN 2 * MinSourceContent
       ELSE twice
\* The source given that the j-th source returned was made from.
GivenOf(j) ==
    CHOOSE i \in 1..NumGiven :
        /\ tok.search_results[i].content # <<>>
        /\ WithContent(tok.search_results, i) = j

\* C37: the content of every source returned is no longer than the
\* character budget of the call, and a content that is within the budget
\* when given is returned as it is.
C37_ContentWithinBudget ==
    (tok.called /\ Remaining > 0 /\ NumGiven > 0) =>
        \A j \in 1..Len(tok.optimized_sources) :
            LET given == ContentLength(tok.search_results[GivenOf(j)].content)
            IN /\ 2 * tok.optimized_sources[j].content <= TwiceCharBudget
               /\ 2 * given <= TwiceCharBudget
                     => tok.optimized_sources[j].content = given
               /\ tok.optimized_sources[j].content <= given

\* Three sources have been returned, cut each on its path: to whole
\* sentences, to a partial paragraph, and hard with an ellipsis.
C37_Witness ==
    /\ tok.called
    /\ Len(tok.optimized_sources) = 3
    /\ NumGiven = 3
    /\ tok.search_results[1].content = <<60, 60, 60, 300>>
    /\ tok.search_results[2].content = <<5000>>
    /\ tok.search_results[3].content = <<30, Blank(5000)>>
    /\ tok.optimized_sources[1].content >= 50
    /\ 2 * tok.optimized_sources[1].content <= TwiceCharBudget - 2 * SafetyMargin
    /\ 2 * tok.optimized_sources[2].content > TwiceCharBudget - 2
    /\ 2 * tok.optimized_sources[3].content > TwiceCharBudget - 2
    /\ TwiceCharBudget < 2 * MaxSourceContent

\* ----------------------------------------- claims: shape of the JSON value
\* C38: the value extract_json_from_text returns has the expected shape:
\* with expected type object it is an object, never an array or a scalar,
\* and with expected type array it is an array, never an object or a
\* scalar, whichever strategy found it.
C38_ReturnsExpectedShape ==
    (Made("extract_json_from_text") /\ js.out.st = "returned"
        /\ js.out.val # None) =>
        /\ js.expected_type = "object" => js.out.val.t = "dict"
        /\ js.expected_type = "array" => js.out.val.t = "list"

\* ------------------------------------------ claims: global call manager
\* What a configuration gives for a setting, the default when it gives none.
Given(config, k, default) ==
    IF HasKey(config, k) THEN GetItem(config, k) ELSE default

\* C39: get_rate_limiter(config) returns a manager whose rate-limit delays
\* and max_retries are those of config, the defaults where config gives
\* none, after any earlier get_rate_limiter and reset_rate_limiter calls.
C39_FactoryFollowsConfig ==
    [][(started' = started + 1 /\ last_op'.op = "get_rate_limiter") =>
         /\ last_op'.returned.t = "APICallManager"
         /\ last_op'.returned.v.anthropic_delay
               = Given(last_op'.config, "anthropic_rate_limit_delay", <<1, 1>>)
         /\ last_op'.returned.v.tavily_delay
               = Given(last_op'.config, "tavily_rate_limit_delay", <<1, 2>>)
         /\ last_op'.returned.v.max_retries
               = Given(last_op'.config, "max_retries", 3)]_vars

====
